---- MODULE Spec2Model ----
(***************************************************************************)
(* The product-image lightbox of the theme: the ProductModal custom        *)
(* element in its click-centring revision (assets/product-modal.js) and    *)
(* in its zoom/pan revision (assets/lazy-media.js).                        *)
(*                                                                         *)
(* JavaScript numbers are modelled as extended rationals: a pair <<n, d>>  *)
(* in lowest terms with d > 0 is the real n/d, <<1, 0>> is Infinity,       *)
(* <<-1, 0>> is -Infinity and <<0, 0>> is NaN.  Floating-point rounding is *)
(* not modelled; division by zero, NaN propagation and the comparisons     *)
(* with NaN are.                                                           *)
(***************************************************************************)
EXTENDS Integers, Sequences, FiniteSets, TLC

----------------------------------------------------------------------------
(* JavaScript number arithmetic *)

Abs(i) == IF i < 0 THEN -i ELSE i

Sgn(i) == IF i < 0 THEN -1 ELSE IF i > 0 THEN 1 ELSE 0

RECURSIVE Gcd(_, _)
Gcd(a, b) == IF b = 0 THEN a ELSE Gcd(b, a % b)

\* the number n/d (d >= 0) in its normal form
Norm(n, d) ==
  IF d = 0 THEN <<Sgn(n), 0>>
  ELSE LET g == Gcd(Abs(n), d) IN <<n \div g, d \div g>>

NaN == <<0, 0>>
Infinity == <<1, 0>>
R(i) == <<i, 1>>
Q(n, d) == Norm(n, d)

IsNaN(a) == a = NaN
IsFinite(a) == a[2] > 0

Neg(a) == <<-a[1], a[2]>>

Add(a, b) ==
  IF IsNaN(a) \/ IsNaN(b) THEN NaN
  ELSE IF a[2] = 0 /\ b[2] = 0 THEN (IF a = b THEN a ELSE NaN)
  ELSE Norm(a[1] * b[2] + b[1] * a[2], a[2] * b[2])

Sub(a, b) == Add(a, Neg(b))

Mul(a, b) == Norm(a[1] * b[1], a[2] * b[2])

\* a / b; a zero divisor is +0, as every divisor of the program is a length
Div(a, b) ==
  IF b[1] < 0 THEN Norm(-a[1] * b[2], -a[2] * b[1])
  ELSE Norm(a[1] * b[2], a[2] * b[1])

\* a < b, a <= b, a > b: false whenever an operand is NaN
Lt(a, b) ==
  /\ ~IsNaN(a) /\ ~IsNaN(b)
  /\ IF a[2] = 0 /\ b[2] = 0 THEN a[1] < b[1] ELSE a[1] * b[2] < b[1] * a[2]

Le(a, b) == ~IsNaN(a) /\ ~IsNaN(b) /\ (a = b \/ Lt(a, b))

Gt(a, b) == Lt(b, a)

\* Math.max, Math.min, Math.abs: NaN when an argument is NaN
MathMax(a, b) == IF IsNaN(a) \/ IsNaN(b) THEN NaN ELSE IF Lt(a, b) THEN b ELSE a

MathMin(a, b) == IF IsNaN(a) \/ IsNaN(b) THEN NaN ELSE IF Lt(b, a) THEN b ELSE a

MathAbs(a) == <<Abs(a[1]), a[2]>>

\* Math.sqrt of a non-negative integer that is a perfect square
MathSqrt(i) == R(CHOOSE r \in 0..i : r * r = i)

\* a || b on numbers: 0 and NaN are falsy
OrElse(a, b) == IF a = R(0) \/ IsNaN(a) THEN b ELSE a

----------------------------------------------------------------------------
(* ProductModal of assets/lazy-media.js: the zoom and pan revision *)

\* the <img data-media-id> items of the modal, in document order
Imgs == <<"a", "b">>

ImgSet == {Imgs[i] : i \in 1..Len(Imgs)}

\* what a gesture lands on inside the container: the first image, or no image
Targets == {Imgs[1], "none"}

\* the layout: the container's client box and every image's layout box;
\* the images are stacked vertically
Layout == [clientWidth |-> 6, clientHeight |-> 6, imgWidth |-> 2, imgHeight |-> 6]

\* the positions of the thumbnails on the product page
PageOffsets == [a |-> 0, b |-> 1]

\* pointer positions relative to the container
Points == {[x |-> 0, y |-> 0], [x |-> 5, y |-> 0], [x |-> 6, y |-> 0]}

\* the deltaY of a wheel event
WheelDeltas == {-300, 300}

\* the horizontal gaps between the two fingers of a pinch
PinchGaps == {0, 3, 6}

\* e.touches of a touch event with n active touches
TouchLists(n) ==
  IF n = 1 THEN {<<p>> : p \in Points}
  ELSE {[i \in 1..n |-> [x |-> (IF i = 2 THEN g ELSE 0), y |-> 0]] : g \in PinchGaps}

MinZoom == 1
MaxZoom == 4
DragThreshold == 5

\* the most pending animation-frame callbacks, pending timers and fingers
MaxFrames == 1
MaxTimers == 2
MaxTouches == 3

\* the number of attachments of the gesture listeners up to which show() is
\* followed
MaxAttached == 2

\* the number of pending 600 ms timers of the gallery up to which thumbnails
\* are clicked
MaxTimeouts == 2

\* the most wheel zooms of one burst, between two rendered frames
MaxBurst == 2

Null == <<>>

\* the click positions show() is called with, as fractions of the thumbnail
ClickPositions == {<<Q(1, 2), Q(1, 2)>>}

\* a Map with no entry
EmptyMap == [i \in {} |-> Null]

MapSet(map, key, value) ==
  [k \in DOMAIN map \cup {key} |-> IF k = key THEN value ELSE map[k]]

VARIABLES
  open, openedBy, clickPosition, savedScrollPosition,
  zoomState, isDragging, didDrag, dragStart, scrollStart, currentWrapper,
  currentDragImg, initialPinchDistance, initialPinchZoom, currentTouchImg,
  currentTouchWrapper,
  zoomInitialized, attached, gallery, infinite, lazyVideo, magnifier, style, scroll,
  windowScrollY,
  frames, timers,
  mouse, pointer, touches,
  ev,
  geom, complete, listeners

\* the other custom elements of the page: the infinite-scroll sentinel of a
\* collection page, a lazy-media element with a video, the zoom overlay of
\* magnify.js
pageVars == <<infinite, lazyVideo, magnifier>>

modalVars == <<open, openedBy, clickPosition, savedScrollPosition>>

dragVars == <<isDragging, didDrag, dragStart, scrollStart, currentWrapper, currentDragImg>>

pinchVars == <<initialPinchDistance, initialPinchZoom, currentTouchImg, currentTouchWrapper>>

domVars == <<zoomInitialized, attached, gallery, pageVars, style, scroll, windowScrollY>>

taskVars == <<frames, timers>>

inputVars == <<mouse, pointer, touches>>

\* the state only the click-centring revision looks at: the sizes of the
\* lightbox, the images that have loaded, the images with a load listener
clickVars == <<geom, complete, listeners>>

vars ==
  <<modalVars, zoomState, dragVars, pinchVars, domVars, taskVars, inputVars, ev,
    clickVars>>

\* the last input, as its listeners left it
Event(type, ctrlKey, prevented) ==
  [type |-> type, ctrlKey |-> ctrlKey, defaultPrevented |-> prevented]

\* an input whose event object no listener reads or changes
NoEvent == Event("none", FALSE, FALSE)

\* the release of the mouse button inside the container: a pointerup, a mouseup
\* and a click, dispatched one after the other
ReleaseEvent(tap, dragged, pointerupStopped, clickStopped) ==
  [type |-> "release", tap |-> tap, dragged |-> dragged,
   pointerupStopped |-> pointerupStopped, clickStopped |-> clickStopped]

NoStyle == [transform |-> Null, transformOrigin |-> "", cursor |-> ""]

\* the scale an image is painted with
Scale(st, img) == IF st[img].transform = Null THEN R(1) ELSE st[img].transform

OffsetTop(i) == (i - 1) * Layout.imgHeight

\* wrapper.scrollWidth and wrapper.scrollHeight: the client box joined with the
\* painted boxes of the images (scaled from their top left corners)
RECURSIVE RightEdge(_, _, _)
RightEdge(st, i, acc) ==
  IF i > Len(Imgs) THEN acc
  ELSE RightEdge(st, i + 1, MathMax(acc, Mul(R(Layout.imgWidth), Scale(st, Imgs[i]))))

RECURSIVE BottomEdge(_, _, _)
BottomEdge(st, i, acc) ==
  IF i > Len(Imgs) THEN acc
  ELSE BottomEdge(st, i + 1,
         MathMax(acc, Add(R(OffsetTop(i)), Mul(R(Layout.imgHeight), Scale(st, Imgs[i])))))

ScrollWidth(st) == RightEdge(st, 1, R(Layout.clientWidth))

ScrollHeight(st) == BottomEdge(st, 1, R(Layout.clientHeight))

\* what the container keeps of an assigned scroll offset: a non-finite one is 0,
\* the others are clamped to the scrollable range
ClampScroll(v, extent, client) ==
  IF ~IsFinite(v) THEN R(0) ELSE MathMax(R(0), MathMin(v, Sub(extent, R(client))))

SetScroll(st, left, top) ==
  [left |-> ClampScroll(left, ScrollWidth(st), Layout.clientWidth),
   top |-> ClampScroll(top, ScrollHeight(st), Layout.clientHeight)]

\* img.style.transform = `scale(${z})`: a declaration that does not parse
\* (scale(NaN)) is dropped and the old value stays
SetTransform(old, z) == IF IsFinite(z) THEN z ELSE old

\* the fields after construction (lines 118-134) and the page around them
Constructed ==
  /\ open = FALSE
  /\ openedBy = "null"
  /\ clickPosition = Null
  /\ savedScrollPosition = Null
  /\ zoomState = EmptyMap
  /\ isDragging = FALSE
  /\ didDrag = FALSE
  /\ dragStart = [x |-> 0, y |-> 0]
  /\ scrollStart = [x |-> R(0), y |-> R(0)]
  /\ currentWrapper = "null"
  /\ currentDragImg = "null"
  /\ initialPinchDistance = Null
  /\ initialPinchZoom = R(1)
  /\ currentTouchImg = "null"
  /\ currentTouchWrapper = "null"
  /\ zoomInitialized = FALSE
  /\ attached = 0
  /\ style = [i \in ImgSet |-> NoStyle]
  /\ scroll = [left |-> R(0), top |-> R(0)]
  /\ windowScrollY = 0
  /\ frames = <<>>
  /\ timers = <<>>
  /\ mouse = "up"
  /\ pointer = [x |-> 0, y |-> 0]
  /\ touches = 0
  /\ ev = NoEvent

\* media-gallery.js: the data-media-id of the items of the media list, in
\* document order; the hover thumbnails carry the same ids as
\* data-media-target, in the same order
GalleryMedia == <<"m1", "m2", "m3">>

GalleryMediaSet == {GalleryMedia[i] : i \in 1..Len(GalleryMedia)}

\* the media-gallery element after its constructor (lines 5-28, 30-55):
\* isScrollingToMedia is only initialised with the scroll observer, on a
\* viewport the desktop media query matches; timeouts counts the pending
\* 600 ms timers, goal is the item a smooth scroll is heading for (0: none)
NewGallery(desktop, active) ==
  [desktop |-> desktop,
   isScrollingToMedia |-> IF desktop THEN "false" ELSE "undefined",
   active |-> active,
   timeouts |-> 0,
   goal |-> 0]

\* the infinite-scroll element after its constructor (infinite-scroll.js,
\* lines 6-27): with one page it removes itself and sets no observer up;
\* fetches are the pages of the requests in flight, retryListeners the click
\* listeners on the retry button
NewInfinite(currentPage, totalPages) ==
  [currentPage |-> currentPage,
   totalPages |-> totalPages,
   loading |-> FALSE,
   observer |-> IF totalPages <= 1 THEN "null" ELSE "observing",
   inDocument |-> totalPages > 1,
   fetches |-> <<>>,
   errorShown |-> FALSE,
   retryListeners |-> 0]

\* a lazy-media element of a video after its connectedCallback (lazy-media.js,
\* lines 7-20): videos counts the video elements inserted, listeners those
\* of them with a loadeddata listener, fallbacks the pending 2000 ms timers,
\* shown the runs of showVideo
NewLazyVideo ==
  [isLoaded |-> FALSE, video |-> 0, videos |-> 0, placeholder |-> TRUE,
   listeners |-> {}, fallbacks |-> {}, visible |-> {}, playing |-> {},
   shown |-> 0, intersecting |-> FALSE]
NewMagnifier ==
  [currentOverlay |-> 0, currentImage |-> 0, imageOf |-> <<>>, loading |-> {},
   inDocument |-> <<>>]

PageIdle ==
  /\ infinite = NewInfinite(1, 1)
  /\ lazyVideo = NewLazyVideo
  /\ magnifier = NewMagnifier

Init ==
  /\ Constructed
  /\ PageIdle
  /\ gallery = NewGallery(TRUE, {GalleryMedia[1]})
  /\ geom = [imgWidth |-> Layout.imgWidth, imgHeight |-> Layout.imgHeight,
             clientWidth |-> Layout.clientWidth, clientHeight |-> Layout.clientHeight,
             stack |-> Len(Imgs)]
  /\ complete = [i \in ImgSet |-> TRUE]
  /\ listeners = {}

\* no animation-frame callback and no timer is pending
Settled == frames = <<>> /\ timers = <<>>

\* the entry of an image in zoomState, made if absent (lines 236-240)
NewState == [zoom |-> R(1), panX |-> 0, panY |-> 0]

GetOrInit(map, img) == IF img \in DOMAIN map THEN map ELSE MapSet(map, img, NewState)

\* Math.max(1, Math.min(4, z)) (lines 244 and 375)
ClampZoom(z) == MathMax(R(MinZoom), MathMin(R(MaxZoom), z))

\* a === b on numbers
StrictEq(a, b) == ~IsNaN(a) /\ a = b

\* newZoom > 1 ? 'grab' : 'zoom-out' (lines 262 and 327)
ZoomCursor(z) == IF Gt(z, R(1)) THEN "grab" ELSE "zoom-out"

\* the search of hide() as it would be with distance <= closestDistance: the
\* last of several closest items wins
RECURSIVE LastClosestItem(_, _, _, _)
LastClosestItem(viewportCenter, i, closestItem, closestDistance) ==
  IF i > Len(Imgs) THEN closestItem
  ELSE LET itemCenter == Add(R(OffsetTop(i)), Q(Layout.imgHeight, 2))
           distance == MathAbs(Sub(viewportCenter, itemCenter))
       IN IF Le(distance, closestDistance)
          THEN LastClosestItem(viewportCenter, i + 1, Imgs[i], distance)
          ELSE LastClosestItem(viewportCenter, i + 1, closestItem, closestDistance)

\* hide(), lines 143-161: the media item whose centre is closest to the centre
\* of the viewport
RECURSIVE ClosestItem(_, _, _, _)
ClosestItem(viewportCenter, i, closestItem, closestDistance) ==
  IF i > Len(Imgs) THEN closestItem
  ELSE LET itemCenter == Add(R(OffsetTop(i)), Q(Layout.imgHeight, 2))
           distance == MathAbs(Sub(viewportCenter, itemCenter))
       IN IF Lt(distance, closestDistance)
          THEN ClosestItem(viewportCenter, i + 1, Imgs[i], distance)
          ELSE ClosestItem(viewportCenter, i + 1, closestItem, closestDistance)

VisibleMediaId(scrollTop) ==
  ClosestItem(Add(scrollTop, Q(Layout.clientHeight, 2)), 1, "null", Infinity)

\* a resetAllZoom() that clears the styles of the images without an entry
ResetOthers(st, map) == [i \in ImgSet |-> IF i \in DOMAIN map THEN st[i] ELSE NoStyle]

\* a resetAllZoom() that clears the map and leaves the styles
KeepStyles(st, map) == st

\* resetAllZoom(): the styles of the images that have an entry are cleared
ResetStyles(st, map) == [i \in ImgSet |-> IF i \in DOMAIN map THEN NoStyle ELSE st[i]]

\* the scroll offsets after the content has changed its size
Relayout(st, sc) == SetScroll(st, sc.left, sc.top)

\* hide(), lines 136-185, with the host's hide() removing the open attribute
hide ==
  /\ Len(timers) < MaxTimers
  /\ LET visibleMediaId == VisibleMediaId(scroll.top)
         cleared == ResetStyles(style, zoomState)
     IN /\ style' = cleared
        /\ scroll' = Relayout(cleared, scroll)
        /\ timers' = IF visibleMediaId # "null"
                     THEN Append(timers, [kind |-> "pageScroll", media |-> visibleMediaId])
                     ELSE timers
  /\ zoomState' = EmptyMap
  /\ open' = FALSE
  /\ savedScrollPosition' = Null
  /\ UNCHANGED <<openedBy, clickPosition, zoomInitialized, attached, gallery, pageVars, windowScrollY, frames>>

\* the close button or the Escape key
Hide ==
  /\ open
  /\ hide
  /\ ev' = Event("hide", FALSE, FALSE)
  /\ UNCHANGED <<dragVars, pinchVars, inputVars>>
  /\ UNCHANGED clickVars

\* an initZoomHandlers() without its guard
NeverInitialized(flag) == FALSE

\* container.dataset.zoomInitialized, the guard of line 198
AlreadyInitialized(flag) == flag

\* initZoomHandlers(), lines 196-220: the ten gesture listeners are attached
\* to the container together; attached counts how often
initZoomHandlers ==
  IF AlreadyInitialized(zoomInitialized)
  THEN UNCHANGED <<zoomInitialized, attached>>
  ELSE /\ zoomInitialized' = TRUE
       /\ attached' = attached + 1

\* show(opener, clickPosition), lines 187-220 and 429-451: a thumbnail of the
\* gallery is clicked, the timers of the last session having fired
Show(opener, click) ==
  /\ ~open
  /\ mouse = "up"
  /\ timers = <<>>
  /\ savedScrollPosition' = R(windowScrollY)
  /\ clickPosition' = click
  /\ openedBy' = opener
  /\ open' = TRUE
  /\ timers' = Append(timers, [kind |-> "scrollIntoView", media |-> opener])
  /\ attached < MaxAttached
  /\ initZoomHandlers
  /\ UNCHANGED <<gallery, pageVars>>
  /\ ev' = NoEvent
  /\ UNCHANGED <<zoomState, dragVars, pinchVars, style, scroll, windowScrollY,
                 frames, inputVars>>
  /\ UNCHANGED clickVars

\* the index of an image in the modal
IndexOf(img) == CHOOSE i \in 1..Len(Imgs) : Imgs[i] = img

\* the oldest 50 ms timer fires: activeMedia.scrollIntoView (lines 441-443) or
\* productImage.scrollIntoView on the product page (lines 171-181)
Timer ==
  /\ timers # <<>>
  /\ LET t == Head(timers)
     IN IF t.kind = "scrollIntoView"
        THEN /\ scroll' = SetScroll(style, scroll.left, R(OffsetTop(IndexOf(t.media))))
             /\ UNCHANGED windowScrollY
        ELSE /\ windowScrollY' = PageOffsets[t.media]
             /\ UNCHANGED scroll
  /\ timers' = Tail(timers)
  /\ ev' = NoEvent
  /\ UNCHANGED <<modalVars, zoomState, dragVars, pinchVars, zoomInitialized, attached, gallery, pageVars, style,
                 frames, inputVars>>
  /\ UNCHANGED clickVars

\* a rescroll that puts the anchored content point at the edge of the
\* viewport instead of under the pointer
rescrollToEdge(st, sc, f) ==
  [left |-> ClampScroll(MathMax(R(0), Mul(ScrollWidth(st), f.percentX)),
                        ScrollWidth(st), Layout.clientWidth),
   top |-> ClampScroll(MathMax(R(0), Mul(ScrollHeight(st), f.percentY)),
                       ScrollHeight(st), Layout.clientHeight)]

\* the callback of lines 265-270
Rescroll(st, sc, f) ==
  LET newScrollLeft == Sub(Mul(ScrollWidth(st), f.percentX), R(f.mouseX))
      newScrollTop == Sub(Mul(ScrollHeight(st), f.percentY), R(f.mouseY))
      left == ClampScroll(MathMax(R(0), newScrollLeft), ScrollWidth(st), Layout.clientWidth)
  IN [left |-> left,
      top |-> ClampScroll(MathMax(R(0), newScrollTop), ScrollHeight(st), Layout.clientHeight)]

\* a frame in which only the callback scheduled first has its way
RunFirstFrame(st, sc, fs) == IF fs = <<>> THEN sc ELSE Rescroll(st, sc, Head(fs))

RECURSIVE RunFrames(_, _, _)
RunFrames(st, sc, fs) ==
  IF fs = <<>> THEN sc ELSE RunFrames(st, Rescroll(st, sc, Head(fs)), Tail(fs))

\* the browser renders a frame: every pending callback runs, in order
AnimationFrame ==
  /\ frames # <<>>
  /\ scroll' = RunFrames(style, scroll, frames)
  /\ frames' = <<>>
  /\ ev' = NoEvent
  /\ UNCHANGED <<modalVars, zoomState, dragVars, pinchVars, zoomInitialized, attached, gallery, pageVars, style,
                 windowScrollY, timers, inputVars>>
  /\ UNCHANGED clickVars

\* a handleWheel that takes every wheel event for a pinch
AnyWheel(ctrlKey) == TRUE

\* if (!e.ctrlKey) return; (line 225)
IsPinchWheel(ctrlKey) == ctrlKey

\* a handleWheel that keeps one zoom for all the images of the modal
wheelZoomsAll(target, deltaY, ctrlKey) ==
  IF ~IsPinchWheel(ctrlKey) \/ target = "none"
  THEN /\ ev' = Event("wheel", ctrlKey, FALSE)
       /\ UNCHANGED <<zoomState, style, scroll, frames>>
  ELSE LET newZoom == ClampZoom(Add(GetOrInit(zoomState, target)[target].zoom,
                                    Mul(R(-deltaY), Q(1, 100))))
           styled == [i \in ImgSet |->
                        [transform |-> SetTransform(style[i].transform, newZoom),
                         transformOrigin |-> "top left",
                         cursor |-> ZoomCursor(newZoom)]]
       IN /\ ev' = Event("wheel", ctrlKey, TRUE)
          /\ zoomState' = [i \in ImgSet |-> [zoom |-> newZoom, panX |-> 0, panY |-> 0]]
          /\ style' = styled
          /\ scroll' = Relayout(styled, scroll)
          /\ UNCHANGED frames

\* handleWheel(e), lines 222-271
handleWheel(target, deltaY, ctrlKey) ==
  IF ~IsPinchWheel(ctrlKey) \/ target = "none"
  THEN /\ ev' = Event("wheel", ctrlKey, FALSE)
       /\ UNCHANGED <<zoomState, style, scroll, frames>>
  ELSE LET map == GetOrInit(zoomState, target)
           state == map[target]
           delta == Mul(R(-deltaY), Q(1, 100))
           newZoom == ClampZoom(Add(state.zoom, delta))
           mouseX == pointer.x
           mouseY == pointer.y
           percentX == Div(Add(R(mouseX), scroll.left), ScrollWidth(style))
           percentY == Div(Add(R(mouseY), scroll.top), ScrollHeight(style))
           styled == [style EXCEPT ![target] =
                        [transform |-> SetTransform(@.transform, newZoom),
                         transformOrigin |-> "top left",
                         cursor |-> ZoomCursor(newZoom)]]
       IN /\ ev' = Event("wheel", ctrlKey, TRUE)
          /\ IF StrictEq(newZoom, state.zoom)
             THEN /\ zoomState' = map
                  /\ UNCHANGED <<style, scroll, frames>>
             ELSE /\ zoomState' = [map EXCEPT ![target].zoom = newZoom]
                  /\ style' = styled
                  /\ scroll' = Relayout(styled, scroll)
                  /\ frames' = Append(frames, [percentX |-> percentX, percentY |-> percentY,
                                               mouseX |-> mouseX, mouseY |-> mouseY])

Wheel(target, deltaY, ctrlKey) ==
  /\ open
  /\ mouse = "up"
  /\ timers = <<>>
  /\ Len(frames) < MaxFrames
  /\ handleWheel(target, deltaY, ctrlKey)
  /\ UNCHANGED <<modalVars, dragVars, pinchVars, zoomInitialized, attached, gallery, pageVars, windowScrollY,
                 timers, inputVars>>
  /\ UNCHANGED clickVars

\* Math.abs(dx) > 5 || Math.abs(dy) > 5 (line 299)
PastThreshold(dx, dy) == Abs(dx) > DragThreshold \/ Abs(dy) > DragThreshold

\* handleMouseDown(e), lines 273-290
handleMouseDown(target) ==
  IF \/ target = "none"
     \/ target \notin DOMAIN zoomState
     \/ Le(zoomState[target].zoom, R(1))
  THEN /\ ev' = Event("mousedown", FALSE, FALSE)
       /\ UNCHANGED <<isDragging, dragStart, scrollStart, currentWrapper,
                      currentDragImg, style>>
  ELSE /\ isDragging' = TRUE
       /\ dragStart' = pointer
       /\ scrollStart' = [x |-> scroll.left, y |-> scroll.top]
       /\ currentWrapper' = "wrapper"
       /\ currentDragImg' = target
       /\ style' = [style EXCEPT ![target].cursor = "grabbing"]
       /\ ev' = Event("mousedown", FALSE, TRUE)

\* the button is pressed inside the container
MouseDown(target) ==
  /\ open
  /\ Settled
  /\ mouse = "up"
  /\ touches = 0
  /\ handleMouseDown(target)
  /\ mouse' = "down"
  /\ UNCHANGED <<modalVars, zoomState, didDrag, pinchVars, zoomInitialized, attached, gallery, pageVars, scroll,
                 windowScrollY, taskVars, pointer, touches>>
  /\ UNCHANGED clickVars

\* a pan that starts from the current offsets instead of those of the drag start
panFromCurrentScroll(e) ==
  IF ~isDragging \/ currentWrapper = "null"
  THEN UNCHANGED <<didDrag, scroll>>
  ELSE LET dx == e.x - dragStart.x
           dy == e.y - dragStart.y
       IN /\ didDrag' = (didDrag \/ PastThreshold(dx, dy))
          /\ scroll' = SetScroll(style, Sub(scroll.left, R(dx)), Sub(scroll.top, R(dy)))

\* handleMouseMove(e), lines 292-305
handleMouseMove(e) ==
  IF ~isDragging \/ currentWrapper = "null"
  THEN UNCHANGED <<didDrag, scroll>>
  ELSE LET dx == e.x - dragStart.x
           dy == e.y - dragStart.y
       IN /\ didDrag' = (didDrag \/ PastThreshold(dx, dy))
          /\ scroll' = SetScroll(style, Sub(scrollStart.x, R(dx)), Sub(scrollStart.y, R(dy)))

\* the pointer moves inside the container
MouseMove(p) ==
  /\ open
  /\ Settled
  /\ touches = 0
  /\ p # pointer
  /\ handleMouseMove(p)
  /\ pointer' = p
  /\ mouse' = IF mouse = "up" THEN "up" ELSE "moved"
  /\ ev' = NoEvent
  /\ UNCHANGED <<modalVars, zoomState, isDragging, dragStart, scrollStart,
                 currentWrapper, currentDragImg, pinchVars, zoomInitialized, attached, gallery, pageVars, style,
                 windowScrollY, taskVars, touches>>
  /\ UNCHANGED clickVars

\* the cursor handleMouseUp() leaves on the images (lines 325-328)
MouseUpStyle ==
  IF isDragging /\ currentDragImg # "null"
  THEN [style EXCEPT ![currentDragImg].cursor =
          IF currentDragImg \in DOMAIN zoomState
          THEN ZoomCursor(zoomState[currentDragImg].zoom)
          ELSE "zoom-out"]
  ELSE style

\* handleMouseUp(), lines 324-332
handleMouseUp ==
  /\ style' = MouseUpStyle
  /\ isDragging' = FALSE
  /\ currentWrapper' = "null"
  /\ currentDragImg' = "null"

\* the pointer leaves the container with the button held: mouseleave (line 209)
MouseLeave ==
  /\ open
  /\ Settled
  /\ mouse \in {"down", "moved"}
  /\ handleMouseUp
  /\ mouse' = "up"
  /\ ev' = NoEvent
  /\ UNCHANGED <<modalVars, zoomState, didDrag, dragStart, scrollStart, pinchVars,
                 zoomInitialized, attached, gallery, pageVars, scroll, windowScrollY, taskVars, pointer, touches>>
  /\ UNCHANGED clickVars

\* handlePointerUp(e), lines 315-322: whether it stops the event, and didDrag
\* after it
PointerUpStops(d) == d

AfterPointerUp(d) == IF d THEN FALSE ELSE d

\* handleClick(e), lines 307-313: whether it stops the event
ClickStops(d) == d

\* the button is released inside the container: the browser dispatches a
\* pointerup, a mouseup and a click.  A pointerup that is not stopped reaches
\* the host, which closes the modal: the mouseup and the click that follow go
\* to the page under the hidden modal
Release ==
  /\ open
  /\ Settled
  /\ mouse \in {"down", "moved"}
  /\ LET stopped == PointerUpStops(didDrag)
         afterPointerUp == AfterPointerUp(didDrag)
     IN /\ didDrag' = afterPointerUp
        /\ IF stopped
           THEN /\ handleMouseUp
                /\ UNCHANGED <<modalVars, zoomState, zoomInitialized, attached, gallery, pageVars, scroll,
                               windowScrollY, taskVars>>
           ELSE /\ hide
                /\ UNCHANGED <<isDragging, currentWrapper, currentDragImg>>
        /\ ev' = ReleaseEvent(mouse = "down", didDrag, stopped,
                              stopped /\ ClickStops(afterPointerUp))
  /\ mouse' = "up"
  /\ UNCHANGED <<dragStart, scrollStart, pinchVars, pointer, touches>>
  /\ UNCHANGED clickVars

\* getTouchDistance(touches), lines 414-418
getTouchDistance(list) ==
  LET dx == list[1].x - list[2].x
      dy == list[1].y - list[2].y
  IN MathSqrt(dx * dx + dy * dy)

\* handleTouchStart(e), lines 335-367
handleTouchStart(target, list) ==
  IF target = "none"
  THEN /\ ev' = Event("touchstart", FALSE, FALSE)
       /\ UNCHANGED <<zoomState, isDragging, dragStart, scrollStart, currentWrapper,
                      pinchVars>>
  ELSE IF Len(list) = 2
  THEN LET map == GetOrInit(zoomState, target)
       IN /\ initialPinchDistance' = getTouchDistance(list)
          /\ currentTouchImg' = target
          /\ currentTouchWrapper' = "wrapper"
          /\ zoomState' = map
          /\ initialPinchZoom' = map[target].zoom
          /\ ev' = Event("touchstart", FALSE, TRUE)
          /\ UNCHANGED <<isDragging, dragStart, scrollStart, currentWrapper>>
  ELSE IF Len(list) = 1 /\ target \in DOMAIN zoomState /\ Gt(zoomState[target].zoom, R(1))
  THEN /\ isDragging' = TRUE
       /\ dragStart' = list[1]
       /\ scrollStart' = [x |-> scroll.left, y |-> scroll.top]
       /\ currentWrapper' = "wrapper"
       /\ ev' = Event("touchstart", FALSE, TRUE)
       /\ UNCHANGED <<zoomState, pinchVars>>
  ELSE /\ ev' = Event("touchstart", FALSE, FALSE)
       /\ UNCHANGED <<zoomState, isDragging, dragStart, scrollStart, currentWrapper,
                      pinchVars>>

\* a finger is put down inside the container; list is e.touches
TouchStart(target, list) ==
  /\ open
  /\ Settled
  /\ mouse = "up"
  /\ Len(list) = touches + 1
  /\ Len(list) <= MaxTouches
  /\ handleTouchStart(target, list)
  /\ touches' = Len(list)
  /\ pointer' = list[1]
  /\ UNCHANGED <<modalVars, didDrag, currentDragImg, domVars, taskVars, mouse>>
  /\ UNCHANGED clickVars

\* handleTouchMove(e), lines 369-400
handleTouchMove(list) ==
  IF Len(list) = 2 /\ initialPinchDistance # Null
  THEN LET currentDistance == getTouchDistance(list)
           scale == Div(currentDistance, initialPinchDistance)
           newZoom == ClampZoom(Mul(initialPinchZoom, scale))
           img == currentTouchImg
           map == GetOrInit(zoomState, img)
           styled == [style EXCEPT ![img] =
                        [@ EXCEPT !.transform = SetTransform(@, newZoom),
                                  !.transformOrigin = "top left"]]
       IN /\ ev' = Event("touchmove", FALSE, TRUE)
          /\ IF img = "null" \/ currentTouchWrapper = "null"
             THEN UNCHANGED <<zoomState, style, scroll>>
             ELSE /\ zoomState' = [map EXCEPT ![img].zoom = newZoom]
                  /\ style' = styled
                  /\ scroll' = Relayout(styled, scroll)
  ELSE IF Len(list) = 1 /\ isDragging /\ currentWrapper # "null"
  THEN LET dx == list[1].x - dragStart.x
           dy == list[1].y - dragStart.y
       IN /\ ev' = Event("touchmove", FALSE, TRUE)
          /\ scroll' = SetScroll(style, Sub(scrollStart.x, R(dx)), Sub(scrollStart.y, R(dy)))
          /\ UNCHANGED <<zoomState, style>>
  ELSE /\ ev' = Event("touchmove", FALSE, FALSE)
       /\ UNCHANGED <<zoomState, style, scroll>>

\* the fingers move; the events of a touch go to the element it started on,
\* whatever has become of the modal since
TouchMove(list) ==
  /\ touches > 0
  /\ Settled
  /\ Len(list) = touches
  /\ handleTouchMove(list)
  /\ pointer' = list[1]
  /\ UNCHANGED <<modalVars, dragVars, pinchVars, zoomInitialized, attached, gallery, pageVars, windowScrollY,
                 taskVars, mouse, touches>>
  /\ UNCHANGED clickVars

\* a touchend that forgets the pinch but never ends the pan
endPinchOnly(n) ==
  /\ IF n < 2
     THEN /\ initialPinchDistance' = Null
          /\ currentTouchImg' = "null"
          /\ currentTouchWrapper' = "null"
     ELSE UNCHANGED <<initialPinchDistance, currentTouchImg, currentTouchWrapper>>
  /\ UNCHANGED <<isDragging, currentWrapper>>

\* handleTouchEnd(e), lines 402-412; n is e.touches.length
handleTouchEnd(n) ==
  /\ IF n < 2
     THEN /\ initialPinchDistance' = Null
          /\ currentTouchImg' = "null"
          /\ currentTouchWrapper' = "null"
     ELSE UNCHANGED <<initialPinchDistance, currentTouchImg, currentTouchWrapper>>
  /\ IF n = 0
     THEN /\ isDragging' = FALSE
          /\ currentWrapper' = "null"
     ELSE UNCHANGED <<isDragging, currentWrapper>>

\* a finger is lifted
TouchEnd ==
  /\ touches > 0
  /\ Settled
  /\ handleTouchEnd(touches - 1)
  /\ touches' = touches - 1
  /\ ev' = NoEvent
  /\ UNCHANGED <<modalVars, zoomState, didDrag, dragStart, scrollStart, currentDragImg,
                 initialPinchZoom, domVars, taskVars, mouse, pointer>>
  /\ UNCHANGED clickVars

----------------------------------------------------------------------------
(* the modal under mouse and trackpad input *)

Next ==
  \/ \E opener \in ImgSet, click \in ClickPositions : Show(opener, click)
  \/ Hide
  \/ Timer
  \/ AnimationFrame
  \/ \E target \in Targets, deltaY \in WheelDeltas, ctrlKey \in BOOLEAN :
       Wheel(target, deltaY, ctrlKey)
  \/ \E target \in Targets : MouseDown(target)
  \/ \E p \in Points : MouseMove(p)
  \/ MouseLeave
  \/ Release

Spec == Init /\ [][Next]_vars

(* the modal under touch input *)

NextTouch ==
  \/ \E opener \in ImgSet, click \in ClickPositions : Show(opener, click)
  \/ Hide
  \/ Timer
  \/ \E target \in Targets, n \in 1..MaxTouches :
       \E list \in TouchLists(n) : TouchStart(target, list)
  \/ \E n \in 1..MaxTouches : \E list \in TouchLists(n) : TouchMove(list)
  \/ TouchEnd

SpecTouch == Init /\ [][NextTouch]_vars

(* the modal on a device with a touch screen and a mouse *)

NextHybrid ==
  \/ \E click \in ClickPositions : Show(Imgs[1], click)
  \/ Timer
  \/ \E target \in Targets, n \in 1..2 :
       \E list \in TouchLists(n) : TouchStart(target, list)
  \/ \E n \in 1..2 : \E list \in TouchLists(n) : TouchMove(list)
  \/ TouchEnd
  \/ \E target \in Targets : MouseDown(target)
  \/ Release

SpecHybrid == Init /\ [][NextHybrid]_vars

(* the modal under bursts of wheel zooms *)

\* a ctrl-wheel event over an image, other rescrolls still pending
WheelBurst(target, deltaY) ==
  /\ open
  /\ mouse = "up"
  /\ timers = <<>>
  /\ Len(frames) < MaxBurst
  /\ handleWheel(target, deltaY, TRUE)
  /\ UNCHANGED <<modalVars, dragVars, pinchVars, zoomInitialized, attached, gallery, pageVars, windowScrollY,
                 timers, inputVars>>
  /\ UNCHANGED clickVars

\* e.deltaY of the wheel events of a burst: steps of 1 and of 3 in the zoom
BurstDeltas == {-300, -100, 100, 300}

NextBurst ==
  \/ \E click \in ClickPositions : Show(Imgs[1], click)
  \/ Hide
  \/ Timer
  \/ AnimationFrame
  \/ \E deltaY \in BurstDeltas : WheelBurst(Imgs[1], deltaY)
  \/ \E p \in Points : MouseMove(p)

SpecBurst == Init /\ [][NextBurst]_vars

(* the modal with gestures on either of its images *)

\* e.touches of the events of a pinch: the first finger rests, the second
\* is put down at one of the gaps and moves between them
PinchLists(n) == {list \in TouchLists(n) : list[1] = [x |-> 0, y |-> 0]}

NextImages ==
  \/ \E click \in ClickPositions : Show(Imgs[1], click)
  \/ Timer
  \/ AnimationFrame
  \/ \E target \in ImgSet, deltaY \in WheelDeltas : Wheel(target, deltaY, TRUE)
  \/ \E target \in ImgSet, n \in 1..2 :
       \E list \in PinchLists(n) : TouchStart(target, list)
  \/ \E list \in PinchLists(2) : TouchMove(list)
  \/ TouchEnd

SpecImages == Init /\ [][NextImages]_vars

(* the modal scrolled through by plain wheel and touch scrolling *)

\* the offsets a native scroll of the container can stop at
ScrollTops == 0..6

\* the container is scrolled natively: handleWheel() returns on a wheel
\* without ctrlKey (lines 223-225) and the browser scrolls the images
NativeScroll(top) ==
  /\ open
  /\ Settled
  /\ mouse = "up"
  /\ scroll' = SetScroll(style, scroll.left, R(top))
  /\ scroll' # scroll
  /\ ev' = Event("wheel", FALSE, FALSE)
  /\ UNCHANGED <<modalVars, zoomState, dragVars, pinchVars, zoomInitialized, attached, gallery, pageVars, style,
                 windowScrollY, taskVars, inputVars>>
  /\ UNCHANGED clickVars

NextScroll ==
  \/ \E opener \in ImgSet, click \in ClickPositions : Show(opener, click)
  \/ Hide
  \/ Timer
  \/ AnimationFrame
  \/ \E target \in Targets, deltaY \in WheelDeltas : Wheel(target, deltaY, TRUE)
  \/ \E top \in ScrollTops : NativeScroll(top)

SpecScroll == Init /\ [][NextScroll]_vars

----------------------------------------------------------------------------
(* ProductModal of assets/product-modal.js: the click-centring revision *)

\* the widths and heights of an image of the lightbox, and of its container
ImageSizes == {300, 1125}

ViewportSizes == {375}

\* the media the container lays out: the active one alone, or all of them in
\* a column
Stacks == {1, Len(Imgs)}

Geoms ==
  [imgWidth : ImageSizes, imgHeight : ImageSizes, clientWidth : ViewportSizes,
   clientHeight : ViewportSizes, stack : Stacks]

\* clickX and clickY: the click as fractions of the thumbnail
Fractions == {R(0), Q(1, 2), R(1)}

ClickPoints == {<<clickX, clickY>> : clickX \in Fractions, clickY \in Fractions}

\* where the page can be scrolled to
PageScrolls == {0, 1}

InitClick ==
  /\ Constructed
  /\ PageIdle
  /\ gallery = NewGallery(TRUE, {GalleryMedia[1]})
  /\ geom \in Geoms
  /\ complete \in [ImgSet -> BOOLEAN]
  /\ listeners = {}

\* the calculation without its clamp to the valid scroll range
unclampedScrollPosition(imageSize, viewportSize, click) ==
  Sub(Mul(R(imageSize), click), Q(viewportSize, 2))

\* a calculation that yields half the viewport for every click
halfViewport(imageSize, viewportSize, click) == Q(viewportSize, 2)

\* calculateScrollPosition of tests/scroll-calculation.test.js, on one axis
calculateScrollPosition(imageSize, viewportSize, click) ==
  LET scrollPos == Sub(Mul(R(imageSize), click), Q(viewportSize, 2))
      maxScroll == MathMax(R(0), R(imageSize - viewportSize))
  IN MathMax(R(0), MathMin(scrollPos, maxScroll))

\* whether the container lays a media item out
Displayed(media, active) == geom.stack > 1 \/ media = active

ClickOffsetTop(media) == IF geom.stack > 1 THEN (IndexOf(media) - 1) * geom.imgHeight ELSE 0

\* container.scrollWidth and container.scrollHeight
ClickScrollWidth == MathMax(R(geom.clientWidth), R(geom.imgWidth))

ClickScrollHeight == MathMax(R(geom.clientHeight), R(geom.stack * geom.imgHeight))

\* the offsets the container keeps of the assigned ones
ClickSetScroll(left, top) ==
  [left |-> ClampScroll(left, ClickScrollWidth, geom.clientWidth),
   top |-> ClampScroll(top, ClickScrollHeight, geom.clientHeight)]

\* offsetWidth || naturalWidth and offsetHeight || naturalHeight (lines 45-46)
ImgSize(media, active, size, loaded) ==
  OrElse(IF Displayed(media, active) THEN R(size) ELSE R(0),
         IF loaded THEN R(size) ELSE R(0))

\* scrollToClick, lines 44-56, called for activeMedia with the modal as it is
\* then; with clickPosition null the callback throws at line 51
scrollToClick(sc, media, active, click, loaded) ==
  IF click = Null THEN sc
  ELSE LET imgWidth == ImgSize(media, active, geom.imgWidth, loaded)
           imgHeight == ImgSize(media, active, geom.imgHeight, loaded)
           scrollX == Sub(Mul(imgWidth, click[1]), Q(geom.clientWidth, 2))
           scrollY == Sub(Mul(imgHeight, click[2]), Q(geom.clientHeight, 2))
       IN ClickSetScroll(MathMax(R(0), scrollX), MathMax(R(0), scrollY))

\* the thumbnails show() can be called with: one per media item of the modal,
\* and one whose data-media-id matches no element of the modal
Openers == ImgSet \cup {"unmatched"}

\* the media items that carry the class active (lines 29-37)
ActiveMedia == {media \in ImgSet : media = openedBy}

\* showActiveMedia() as it would be if a call without click position fell back
\* on the click position of the session before
showWithLeftOverClick(opener, click) ==
  LET used == IF click = Null THEN clickPosition ELSE click
  IN IF opener \notin ImgSet
     THEN /\ ev' = Event("error", FALSE, FALSE)
          /\ UNCHANGED <<scroll, frames, listeners>>
     ELSE IF used # Null
     THEN /\ IF complete[opener]
             THEN /\ frames' = Append(frames, [media |-> opener])
                  /\ UNCHANGED listeners
             ELSE /\ listeners' = listeners \cup {opener}
                  /\ UNCHANGED frames
          /\ ev' = NoEvent
          /\ UNCHANGED scroll
     ELSE /\ scroll' = ClickSetScroll(Q(geom.imgWidth - geom.clientWidth, 2),
                                      R(ClickOffsetTop(opener)))
          /\ ev' = NoEvent
          /\ UNCHANGED <<frames, listeners>>

\* showActiveMedia(), lines 28-74; with no element for the opener's media id
\* activeMedia is null and line 35 throws a TypeError after the loop of lines
\* 29-33, which the window reports as an error event
showActiveMedia(opener, click) ==
  IF opener \notin ImgSet
  THEN /\ ev' = Event("error", FALSE, FALSE)
       /\ UNCHANGED <<scroll, frames, listeners>>
  ELSE IF click # Null
  THEN /\ IF complete[opener]
          THEN /\ frames' = Append(frames, [media |-> opener])
               /\ UNCHANGED listeners
          ELSE /\ listeners' = listeners \cup {opener}
               /\ UNCHANGED frames
       /\ ev' = NoEvent
       /\ UNCHANGED scroll
  ELSE /\ scroll' = ClickSetScroll(Q(geom.imgWidth - geom.clientWidth, 2),
                                   R(ClickOffsetTop(opener)))
       /\ ev' = NoEvent
       /\ UNCHANGED <<frames, listeners>>

\* show(opener, clickPosition), lines 20-26, with the host's show() setting
\* openedBy and the open attribute
ShowAt(opener, click) ==
  /\ ~open
  /\ Len(frames) < MaxFrames
  /\ savedScrollPosition' = R(windowScrollY)
  /\ clickPosition' = click
  /\ openedBy' = opener
  /\ open' = TRUE
  /\ showActiveMedia(opener, click)
  /\ UNCHANGED <<zoomState, dragVars, pinchVars, zoomInitialized, attached, gallery, pageVars, style, windowScrollY,
                 timers, inputVars, geom, complete>>

\* hide(), lines 11-18: window.scrollTo() and then the host's hide(), which
\* removes the open attribute, in one call
Close ==
  /\ open
  /\ IF savedScrollPosition # Null
     THEN /\ windowScrollY' = savedScrollPosition[1]
          /\ savedScrollPosition' = Null
     ELSE UNCHANGED <<windowScrollY, savedScrollPosition>>
  /\ open' = FALSE
  /\ UNCHANGED <<openedBy, clickPosition, zoomState, dragVars, pinchVars,
                 zoomInitialized, attached, gallery, pageVars, style, scroll, taskVars, inputVars, ev, clickVars>>

\* what the window sees of a run of scrollToClick: the TypeError of line 51
\* if clickPosition is null by then
Thrown(click) == IF click = Null THEN Event("error", FALSE, FALSE) ELSE ev

RECURSIVE RunClickFrames(_, _)
RunClickFrames(sc, fs) ==
  IF fs = <<>> THEN sc
  ELSE RunClickFrames(scrollToClick(sc, Head(fs).media, openedBy, clickPosition,
                                    complete[Head(fs).media]),
                      Tail(fs))

\* the browser renders a frame: the pending scrollToClick callbacks run
ClickFrame ==
  /\ frames # <<>>
  /\ scroll' = RunClickFrames(scroll, frames)
  /\ frames' = <<>>
  /\ ev' = Thrown(clickPosition)
  /\ UNCHANGED <<modalVars, zoomState, dragVars, pinchVars, zoomInitialized, attached, gallery, pageVars, style,
                 windowScrollY, timers, inputVars, clickVars>>

\* an image finishes loading: its load listener, if any, runs once (line 61)
ImageLoad(media) ==
  /\ ~complete[media]
  /\ complete' = [complete EXCEPT ![media] = TRUE]
  /\ scroll' = IF media \in listeners
               THEN scrollToClick(scroll, media, openedBy, clickPosition, TRUE)
               ELSE scroll
  /\ listeners' = listeners \ {media}
  /\ ev' = IF media \in listeners THEN Thrown(clickPosition) ELSE ev
  /\ UNCHANGED <<modalVars, zoomState, dragVars, pinchVars, zoomInitialized, attached, gallery, pageVars, style,
                 windowScrollY, taskVars, inputVars, geom>>

\* the visitor scrolls the product page
ScrollPage(y) ==
  /\ ~open
  /\ y # windowScrollY
  /\ windowScrollY' = y
  /\ UNCHANGED <<modalVars, zoomState, dragVars, pinchVars, zoomInitialized, attached, gallery, pageVars, style,
                 scroll, taskVars, inputVars, ev, clickVars>>

NextClick ==
  \/ \E opener \in Openers, click \in ClickPoints \cup {Null} : ShowAt(opener, click)
  \/ Close
  \/ ClickFrame
  \/ \E media \in ImgSet : ImageLoad(media)
  \/ \E y \in PageScrolls : ScrollPage(y)

SpecClick == InitClick /\ [][NextClick]_vars

\* the browser runs every requested animation frame; whether an image ever
\* finishes loading is up to the network, so ImageLoad carries no fairness
SpecClickFair == SpecClick /\ WF_vars(ClickFrame)

(* the click-centring of a tall image on a phone, as in the scenarios of
   tests/scroll-calculation.test.js *)

\* imageWidth, imageHeight, viewportWidth and viewportHeight of the scenarios
TestGeom ==
  [imgWidth |-> 1125, imgHeight |-> 3375, clientWidth |-> 375, clientHeight |-> 812,
   stack |-> 1]

\* the click fractions are the multiples of 1 / FractionSteps in [0, 1]
FractionSteps == 12

FineFractions == {Q(k, FractionSteps) : k \in 0..FractionSteps}

\* clickX and clickY of the scenarios: the same fraction on both axes
FineClicks == {<<f, f>> : f \in FineFractions}

InitRatio ==
  /\ Constructed
  /\ PageIdle
  /\ gallery = NewGallery(TRUE, {GalleryMedia[1]})
  /\ geom = TestGeom
  /\ complete = [i \in ImgSet |-> TRUE]
  /\ listeners = {}

NextRatio ==
  \/ \E click \in FineClicks : ShowAt(Imgs[1], click)
  \/ Close
  \/ ClickFrame

SpecRatio == InitRatio /\ [][NextRatio]_vars

----------------------------------------------------------------------------
(* ProductModal of unnamed/part_005: the revision that restores the saved
   scroll position of the page 50 ms after hide() and centres the click 100 ms
   after show() *)

InitRestore ==
  /\ Constructed
  /\ PageIdle
  /\ gallery = NewGallery(TRUE, {GalleryMedia[1]})
  /\ geom = TestGeom
  /\ complete \in [ImgSet -> BOOLEAN]
  /\ listeners = {}

\* a pending setTimeout callback with its delay in ms
Timeout(kind, delay, media) == [kind |-> kind, delay |-> delay, media |-> media]

\* the pending timer i can be the next to fire: no timer set before it with a
\* delay as short or shorter is pending
Due(i) == \A j \in 1..(i - 1) : timers[j].delay > timers[i].delay

RemoveAt(seq, i) == SubSeq(seq, 1, i - 1) \o SubSeq(seq, i + 1, Len(seq))

\* showActiveMedia(), lines 30-81
showActiveMediaLater(opener, click) ==
  IF click # Null
  THEN /\ IF complete[opener]
          THEN /\ timers' = Append(timers, Timeout("centre", 100, opener))
               /\ UNCHANGED listeners
          ELSE /\ listeners' = listeners \cup {opener}
               /\ UNCHANGED timers
       /\ UNCHANGED scroll
  ELSE /\ scroll' = ClickSetScroll(Q(geom.imgWidth - geom.clientWidth, 2),
                                   R(ClickOffsetTop(opener)))
       /\ UNCHANGED <<timers, listeners>>

\* show(opener, clickPosition), lines 22-28
ShowSaved(opener, click) ==
  /\ ~open
  /\ Len(timers) < MaxTimers
  /\ savedScrollPosition' = R(windowScrollY)
  /\ clickPosition' = click
  /\ openedBy' = opener
  /\ open' = TRUE
  /\ showActiveMediaLater(opener, click)
  /\ UNCHANGED <<zoomState, dragVars, pinchVars, zoomInitialized, attached, gallery, pageVars, style,
                 windowScrollY, frames, inputVars, ev, geom, complete>>

\* hide(), lines 11-20
hideAndRestoreLater ==
  /\ open' = FALSE
  /\ timers' = IF savedScrollPosition # Null
               THEN Append(timers, Timeout("restore", 50, "null"))
               ELSE timers
  /\ UNCHANGED <<windowScrollY, savedScrollPosition>>

HideSaved ==
  /\ open
  /\ Len(timers) < MaxTimers
  /\ hideAndRestoreLater
  /\ UNCHANGED <<openedBy, clickPosition, zoomState, dragVars, pinchVars, zoomInitialized,
                 attached, gallery, pageVars, style, scroll, frames, inputVars, ev, clickVars>>

\* the callback of lines 47-62 for activeMedia; with clickPosition null by
\* then it throws at line 54
centreOnClick(sc, media, active, click) ==
  IF click = Null THEN sc
  ELSE LET imgWidth == IF Displayed(media, active) THEN R(geom.imgWidth) ELSE R(0)
           imgHeight == IF Displayed(media, active) THEN R(geom.imgHeight) ELSE R(0)
           scrollX == Sub(Mul(imgWidth, click[1]), Q(geom.clientWidth, 2))
           scrollY == Sub(Mul(imgHeight, click[2]), Q(geom.clientHeight, 2))
       IN ClickSetScroll(MathMax(R(0), scrollX), MathMax(R(0), scrollY))

\* a timer fires: the restore of lines 15-18, where window.scrollTo(0, null)
\* scrolls to 0, or the centring of lines 47-62
SavedTimer(i) ==
  /\ i \in 1..Len(timers)
  /\ Due(i)
  /\ IF timers[i].kind = "restore"
     THEN /\ windowScrollY' = IF savedScrollPosition = Null THEN 0
                              ELSE savedScrollPosition[1]
          /\ savedScrollPosition' = Null
          /\ UNCHANGED scroll
     ELSE /\ scroll' = centreOnClick(scroll, timers[i].media, openedBy, clickPosition)
          /\ UNCHANGED <<windowScrollY, savedScrollPosition>>
  /\ timers' = RemoveAt(timers, i)
  /\ UNCHANGED <<open, openedBy, clickPosition, zoomState, dragVars, pinchVars,
                 zoomInitialized, attached, gallery, pageVars, style, frames, inputVars, ev, clickVars>>

\* an image finishes loading: its load listener, if any, sets the timer of
\* line 47 (line 68)
SavedLoad(media) ==
  /\ ~complete[media]
  /\ Len(timers) < MaxTimers
  /\ complete' = [complete EXCEPT ![media] = TRUE]
  /\ timers' = IF media \in listeners
               THEN Append(timers, Timeout("centre", 100, media))
               ELSE timers
  /\ listeners' = listeners \ {media}
  /\ UNCHANGED <<modalVars, zoomState, dragVars, pinchVars, domVars, frames, inputVars, ev, geom>>

NextRestore ==
  \/ \E opener \in ImgSet, click \in ClickPositions \cup {Null} : ShowSaved(opener, click)
  \/ HideSaved
  \/ \E i \in 1..MaxTimers : SavedTimer(i)
  \/ \E media \in ImgSet : SavedLoad(media)
  \/ \E y \in PageScrolls : ScrollPage(y)

SpecRestore == InitRestore /\ [][NextRestore]_vars

----------------------------------------------------------------------------
(* media-gallery.js: the hover thumbnails of the product page *)

\* everything but the gallery and the scroll position of the page
lightboxVars ==
  <<modalVars, zoomState, dragVars, pinchVars, zoomInitialized, attached, pageVars, style, scroll,
    taskVars, inputVars, ev, clickVars>>

\* the page is scrolled in units of media items: item i is in the band of
\* the observer at offset i - 1
ItemOffsets == {i - 1 : i \in 1..Len(GalleryMedia)}

InitGallery ==
  /\ Constructed
  /\ PageIdle
  /\ geom = TestGeom
  /\ complete = [i \in ImgSet |-> TRUE]
  /\ listeners = {}
  /\ gallery \in {NewGallery(desktop, active) :
                    desktop \in BOOLEAN, active \in {{}, {GalleryMedia[1]}}}

IndexOfMedia(mediaId) == CHOOSE i \in 1..Len(GalleryMedia) : GalleryMedia[i] = mediaId

\* a setActiveHoverThumbnail() that does not remove is-active first
addActiveHoverThumbnail(active, mediaId) ==
  IF mediaId \in GalleryMediaSet THEN active \cup {mediaId} ELSE active

\* setActiveHoverThumbnail(mediaId), lines 147-165: the thumbnails that have
\* is-active afterwards
setActiveHoverThumbnail(active, mediaId) ==
  LET activeItem == IF mediaId \in GalleryMediaSet THEN mediaId
                    ELSE IF Len(GalleryMedia) > 0 THEN GalleryMedia[1]
                    ELSE "null"
  IN IF activeItem # "null" THEN {activeItem} ELSE {}

\* a scrollToMedia() that does not pause the observer
scrollWithoutPause(mediaId) ==
  IF mediaId \notin GalleryMediaSet
  THEN UNCHANGED gallery
  ELSE gallery' = [gallery EXCEPT
                     !.active = setActiveHoverThumbnail(@, mediaId),
                     !.goal = IndexOfMedia(mediaId),
                     !.timeouts = @ + 1]

\* scrollToMedia(mediaId), lines 128-145
scrollToMedia(mediaId) ==
  IF mediaId \notin GalleryMediaSet
  THEN UNCHANGED gallery
  ELSE gallery' = [gallery EXCEPT
                     !.isScrollingToMedia = "true",
                     !.active = setActiveHoverThumbnail(@, mediaId),
                     !.goal = IndexOfMedia(mediaId),
                     !.timeouts = @ + 1]

\* the click listener of a hover thumbnail (lines 35-38)
ThumbnailClick(mediaTarget) ==
  /\ gallery.timeouts < MaxTimeouts
  /\ scrollToMedia(mediaTarget)
  /\ UNCHANGED <<lightboxVars, windowScrollY>>

\* the 600 ms timer of scrollToMedia() fires (lines 142-144)
ScrollTimeout ==
  /\ gallery.timeouts > 0
  /\ gallery' = [gallery EXCEPT !.isScrollingToMedia = "false", !.timeouts = @ - 1]
  /\ UNCHANGED <<lightboxVars, windowScrollY>>

\* the callback of the IntersectionObserver (lines 63-73) for the item that
\* has come into the band; there is no observer unless the desktop media
\* query matched (line 42)
Observed(g, i) ==
  IF ~g.desktop \/ g.isScrollingToMedia = "true"
  THEN g
  ELSE [g EXCEPT !.active = setActiveHoverThumbnail(@, GalleryMedia[i])]

\* the smooth scroll of window.scrollTo() (line 139) moves on by one item
SmoothScroll ==
  /\ gallery.goal # 0
  /\ LET top == IF windowScrollY < gallery.goal - 1 THEN windowScrollY + 1
                ELSE IF windowScrollY > gallery.goal - 1 THEN windowScrollY - 1
                ELSE windowScrollY
         arrived == [gallery EXCEPT !.goal = IF top = gallery.goal - 1 THEN 0 ELSE @]
     IN /\ windowScrollY' = top
        /\ gallery' = IF top # windowScrollY THEN Observed(arrived, top + 1) ELSE arrived
  /\ UNCHANGED lightboxVars

\* the visitor scrolls the page to another item, which ends a smooth scroll
PageScroll(top) ==
  /\ top # windowScrollY
  /\ windowScrollY' = top
  /\ gallery' = Observed([gallery EXCEPT !.goal = 0], top + 1)
  /\ UNCHANGED lightboxVars

NextGallery ==
  \/ \E mediaTarget \in GalleryMediaSet : ThumbnailClick(mediaTarget)
  \/ ScrollTimeout
  \/ SmoothScroll
  \/ \E top \in ItemOffsets : PageScroll(top)

SpecGallery == InitGallery /\ [][NextGallery]_vars

\* timers fire and a smooth scroll goes on
SpecGalleryFair == SpecGallery /\ WF_vars(ScrollTimeout) /\ WF_vars(SmoothScroll)

----------------------------------------------------------------------------
(* infinite-scroll.js: the sentinel at the end of the product grid *)

\* everything but the other custom elements of the page
modalAndGallery ==
  <<modalVars, zoomState, dragVars, pinchVars, zoomInitialized, attached, gallery, style,
    scroll, windowScrollY, taskVars, inputVars, ev, clickVars>>

\* the most pages of a collection, requests in flight and click listeners on
\* the retry button
MaxPages == 3
MaxFetches == 2
MaxRetryListeners == 2

InitInfinite ==
  /\ Constructed
  /\ gallery = NewGallery(TRUE, {GalleryMedia[1]})
  /\ geom = TestGeom
  /\ complete = [i \in ImgSet |-> TRUE]
  /\ listeners = {}
  /\ lazyVideo = NewLazyVideo
  /\ magnifier = NewMagnifier
  /\ infinite \in {NewInfinite(currentPage, totalPages) :
                     currentPage \in 1..MaxPages, totalPages \in 1..MaxPages}
  /\ infinite.currentPage <= infinite.totalPages

\* loadMore() up to its first await (lines 47-61)
loadMore(inf) ==
  IF inf.loading \/ inf.currentPage >= inf.totalPages THEN inf
  ELSE [inf EXCEPT !.loading = TRUE, !.fetches = Append(@, inf.currentPage + 1)]

\* the callback of the IntersectionObserver for an intersecting entry
\* (lines 36-42); a disconnected observer delivers none
SentinelIntersects ==
  /\ infinite.observer = "observing"
  /\ infinite.inDocument
  /\ Len(infinite.fetches) < MaxFetches
  /\ ~infinite.loading
  /\ infinite.currentPage < infinite.totalPages
  /\ infinite' = loadMore(infinite)
  /\ UNCHANGED <<modalAndGallery, lazyVideo, magnifier>>

\* the retry button is clicked: each of its once-only listeners hides the
\* error and calls loadMore() (lines 130-133)
RetryClick ==
  /\ infinite.errorShown
  /\ infinite.retryListeners > 0
  /\ Len(infinite.fetches) < MaxFetches
  /\ infinite' = loadMore([infinite EXCEPT !.errorShown = FALSE, !.retryListeners = 0])
  /\ UNCHANGED <<modalAndGallery, lazyVideo, magnifier>>

\* complete(), lines 138-150
completeLoading(inf) ==
  [inf EXCEPT !.observer = IF @ = "null" THEN "null" ELSE "disconnected"]

\* a request in flight is answered and loadMore() runs to its end (lines
\* 63-108): with products, with a page without products, or with an error
FetchDone(i, outcome) ==
  /\ i \in 1..Len(infinite.fetches)
  /\ LET nextPage == infinite.fetches[i]
         rest == [infinite EXCEPT !.fetches = RemoveAt(@, i), !.loading = FALSE]
         appended == IF outcome = "products"
                     THEN [rest EXCEPT !.currentPage = nextPage]
                     ELSE rest
     IN IF outcome = "error"
        THEN /\ infinite.retryListeners < MaxRetryListeners
             /\ infinite' = [rest EXCEPT !.errorShown = TRUE, !.retryListeners = @ + 1]
        ELSE infinite' = IF appended.currentPage >= appended.totalPages
                         THEN completeLoading(appended)
                         ELSE appended
  /\ UNCHANGED <<modalAndGallery, lazyVideo, magnifier>>

\* reset(), lines 164-180
ResetInfinite ==
  /\ infinite' = [infinite EXCEPT
                     !.currentPage = 1,
                     !.loading = FALSE,
                     !.errorShown = FALSE,
                     !.observer = IF @ = "null" THEN "observing" ELSE @]
  /\ UNCHANGED <<modalAndGallery, lazyVideo, magnifier>>

FetchOutcomes == {"products", "empty", "error"}

NextInfinite ==
  \/ SentinelIntersects
  \/ RetryClick
  \/ \E i \in 1..MaxFetches, outcome \in FetchOutcomes : FetchDone(i, outcome)
  \/ ResetInfinite

SpecInfinite == InitInfinite /\ [][NextInfinite]_vars

\* the sentinel comes into view again and again, and every request is
\* answered
SpecInfiniteFair ==
  /\ SpecInfinite
  /\ WF_vars(SentinelIntersects)
  /\ WF_vars(\E i \in 1..MaxFetches, outcome \in FetchOutcomes : FetchDone(i, outcome))

----------------------------------------------------------------------------
(* lazy-media.js: a <lazy-media> element of media type video *)

\* the most video elements one element inserts
MaxVideos == 3

InitVideo ==
  /\ Constructed
  /\ gallery = NewGallery(TRUE, {GalleryMedia[1]})
  /\ geom = TestGeom
  /\ complete = [i \in ImgSet |-> TRUE]
  /\ listeners = {}
  /\ infinite = NewInfinite(1, 1)
  /\ lazyVideo = NewLazyVideo
  /\ magnifier = NewMagnifier

\* the closure showVideo of the video element v (lines 88-93)
showVideo(lv, v) ==
  [lv EXCEPT !.visible = @ \cup {v},
             !.placeholder = FALSE,
             !.isLoaded = TRUE,
             !.playing = @ \cup {lv.video},
             !.shown = @ + 1]

\* loadVideo(), lines 53-106; ready: videoElement.readyState >= 2
loadVideo(lv, ready) ==
  IF ~lv.placeholder THEN lv
  ELSE LET v == lv.videos + 1
           inserted == [lv EXCEPT !.videos = v, !.video = v]
       IN IF ready THEN showVideo(inserted, v)
          ELSE [inserted EXCEPT !.listeners = @ \cup {v}, !.fallbacks = @ \cup {v}]

\* the readyState of a video element whose src has just been set
ReadyStates == {FALSE}

\* the callback of the IntersectionObserver for one entry (lines 37-49);
\* the observer reports the changes of the intersection
VideoIntersects(isIntersecting, ready) ==
  /\ isIntersecting # lazyVideo.intersecting
  /\ isIntersecting /\ ~lazyVideo.isLoaded => lazyVideo.videos < MaxVideos
  /\ LET lv == [lazyVideo EXCEPT !.intersecting = isIntersecting]
     IN lazyVideo' =
          IF isIntersecting
          THEN IF ~lv.isLoaded THEN loadVideo(lv, ready)
               ELSE IF lv.video # 0 THEN [lv EXCEPT !.playing = @ \cup {lv.video}]
               ELSE lv
          ELSE IF lv.video # 0 /\ lv.isLoaded THEN [lv EXCEPT !.playing = @ \ {lv.video}]
          ELSE lv
  /\ UNCHANGED <<modalAndGallery, infinite, magnifier>>

\* loadeddata on the video element v: its once-only listener runs showVideo
VideoLoadedData(v) ==
  /\ v \in lazyVideo.listeners
  /\ lazyVideo' = showVideo([lazyVideo EXCEPT !.listeners = @ \ {v}], v)
  /\ UNCHANGED <<modalAndGallery, infinite, magnifier>>

\* the 2000 ms timer set with the video element v fires (lines 100-104);
\* timers of one delay fire in the order they were set
VideoFallback(v) ==
  /\ v \in lazyVideo.fallbacks
  /\ \A w \in lazyVideo.fallbacks : v <= w
  /\ LET lv == [lazyVideo EXCEPT !.fallbacks = @ \ {v}]
     IN lazyVideo' = IF ~lv.isLoaded THEN showVideo(lv, v) ELSE lv
  /\ UNCHANGED <<modalAndGallery, infinite, magnifier>>

NextVideo ==
  \/ \E isIntersecting \in BOOLEAN, ready \in ReadyStates :
       VideoIntersects(isIntersecting, ready)
  \/ \E v \in 1..MaxVideos : VideoLoadedData(v)
  \/ \E v \in 1..MaxVideos : VideoFallback(v)

SpecVideo == InitVideo /\ [][NextVideo]_vars

----------------------------------------------------------------------------
(* magnify.js: the zoom overlay of the product images *)

\* the most overlays created, and the images of class image-magnify-hover
MaxOverlays == 3
MagnifyImages == 1..2

InitMagnify ==
  /\ Constructed
  /\ gallery = NewGallery(TRUE, {GalleryMedia[1]})
  /\ geom = TestGeom
  /\ complete = [i \in ImgSet |-> TRUE]
  /\ listeners = {}
  /\ infinite = NewInfinite(1, 1)
  /\ lazyVideo = NewLazyVideo
  /\ magnifier = NewMagnifier

\* the overlays in the document in front of an image, in document order
OverlaysOn(mg, image) == SelectSeq(mg.inDocument, LAMBDA o : mg.imageOf[o] = image)

\* magnify(image), lines 171-196, with createOverlay up to the load of the
\* overlay image (lines 29-36)
magnify(mg, image) ==
  LET overlay == Len(mg.imageOf) + 1
  IN [mg EXCEPT !.currentImage = image,
                !.currentOverlay = overlay,
                !.imageOf = Append(@, image),
                !.loading = @ \cup {overlay}]

\* cleanupOverlay(), lines 160-169
cleanupOverlay(mg) ==
  IF mg.currentOverlay # 0
  THEN [mg EXCEPT !.inDocument = SelectSeq(@, LAMBDA o : o # mg.currentOverlay),
                  !.currentOverlay = 0,
                  !.currentImage = 0]
  ELSE mg

\* a click or a tap on an image no overlay covers (lines 201-216)
ImageClick(image) ==
  /\ Len(magnifier.imageOf) < MaxOverlays
  /\ OverlaysOn(magnifier, image) = <<>>
  /\ magnifier' = magnify(magnifier, image)
  /\ UNCHANGED <<modalAndGallery, infinite, lazyVideo>>

\* overlayImage.onload, lines 38-42: the overlay is inserted before its
\* image
OverlayLoad(overlay) ==
  /\ overlay \in magnifier.loading
  /\ magnifier' = [magnifier EXCEPT !.loading = @ \ {overlay},
                                    !.inDocument = Append(@, overlay)]
  /\ UNCHANGED <<modalAndGallery, infinite, lazyVideo>>

\* a click, a mouseleave or a tap on the overlay in front of an image
\* (lines 182, 184, 149-156)
OverlayDismiss(image) ==
  /\ OverlaysOn(magnifier, image) # <<>>
  /\ magnifier' = cleanupOverlay(magnifier)
  /\ UNCHANGED <<modalAndGallery, infinite, lazyVideo>>

NextMagnify ==
  \/ \E image \in MagnifyImages : ImageClick(image)
  \/ \E overlay \in 1..MaxOverlays : OverlayLoad(overlay)
  \/ \E image \in MagnifyImages : OverlayDismiss(image)

SpecMagnify == InitMagnify /\ [][NextMagnify]_vars

----------------------------------------------------------------------------
(* properties of the zoom and pan revision *)

InRange(z) == Le(R(MinZoom), z) /\ Le(z, R(MaxZoom))

\* C1: after any sequence of ctrl-wheel and touch events, a pinch that starts
\* with both fingers on one point included, every entry of zoomState has a
\* zoom that is a number within [1, 4]
C1_ZoomWithinRange == \A i \in DOMAIN zoomState : InRange(zoomState[i].zoom)

\* a pinch that started at distance 0 has left NaN in an entry
C1_NaNZoom ==
  /\ initialPinchDistance = R(0)
  /\ touches = 2
  /\ \E i \in DOMAIN zoomState : IsNaN(zoomState[i].zoom)

\* the pointer's displacement from the start of the drag is past the threshold
Displaced == PastThreshold(pointer.x - dragStart.x, pointer.y - dragStart.y)

\* the step ends a drag session: the last finger of a pan is lifted, or the
\* button of a mouse drag is released
DragReleased ==
  /\ isDragging
  /\ \/ touches = 1 /\ touches' = 0
     \/ mouse \in {"down", "moved"} /\ mouse' = "up" /\ ev'.type = "release"

\* C2: for every drag session on a zoomed image, a mouse drag or a single-touch
\* pan, at the moment of release didDrag is true if and only if the
\* displacement from the drag start has max(|dx|, |dy|) > 5
C2_DidDragIffDisplaced == [][DragReleased => (didDrag <=> Displaced)]_vars

\* a pan has carried the finger past the threshold and didDrag is false
C2_PanPastThreshold ==
  /\ touches = 1
  /\ isDragging
  /\ Displaced
  /\ ~didDrag

\* C8: whenever the modal is closed no gesture state survives: isDragging and
\* didDrag are false, initialPinchDistance, currentTouchImg and currentWrapper
\* are null and zoomState is empty, however the modal was closed and whatever
\* touch moves arrive after hide()
C8_NoGestureStateWhileClosed ==
  ~open =>
    /\ ~isDragging
    /\ ~didDrag
    /\ initialPinchDistance = Null
    /\ currentTouchImg = "null"
    /\ currentWrapper = "null"
    /\ DOMAIN zoomState = {}

\* the modal is closed and a touch move that arrived after hide() has put an
\* entry back into zoomState
C8_EntryWhileClosed ==
  /\ ~open
  /\ DOMAIN zoomState # {}
  /\ initialPinchDistance # Null

\* the step is the release of the mouse button inside the container
Released == mouse \in {"down", "moved"} /\ mouse' = "up" /\ ev'.type = "release"

\* C3: when a drag ends with didDrag true, the pointerup and the click of that
\* release are both stopped at the capture phase, so that neither reaches the
\* host's close handler, and didDrag is false once both have been handled
C3_DragReleaseStopsBoth ==
  [][(Released /\ isDragging /\ didDrag) =>
       (ev'.pointerupStopped /\ ev'.clickStopped /\ ~didDrag')]_vars

\* a drag past the threshold has been released: its pointerup was stopped and
\* its click was not
C3_ClickNotStopped ==
  /\ ev.type = "release"
  /\ ev.dragged
  /\ ev.pointerupStopped
  /\ ~ev.clickStopped
  /\ ~didDrag

\* C4: a press and release with no movement in between is never suppressed:
\* its pointerup and its click propagate to the host whatever came before,
\* an earlier drag past the threshold that ended by mouseleave included
C4_TapNeverSuppressed ==
  [][(Released /\ mouse = "down") =>
       (~ev'.pointerupStopped /\ ~ev'.clickStopped)]_vars

\* a tap whose pointerup was stopped: the modal is still open
C4_TapSuppressed ==
  /\ ev.type = "release"
  /\ ev.tap
  /\ ev.pointerupStopped
  /\ open

\* C7: a wheel event without the ctrl modifier is never claimed: handleWheel
\* leaves zoomState, the styles of the images and the scroll offsets unchanged
\* and does not call preventDefault, in every state
C7_PlainWheelPassesThrough ==
  [][(ev'.type = "wheel" /\ ~ev'.ctrlKey) =>
       (UNCHANGED <<zoomState, style, scroll>> /\ ~ev'.defaultPrevented)]_vars

\* a plain wheel event has passed over a zoomed image
C7_PlainWheelOverZoomed ==
  /\ ev.type = "wheel"
  /\ ~ev.ctrlKey
  /\ Imgs[1] \in DOMAIN zoomState
  /\ zoomState[Imgs[1]].zoom = R(MaxZoom)
  /\ style[Imgs[1]].transform = R(MaxZoom)

\* no image is scaled without an entry in zoomState
ScaledHaveEntries == \A i \in ImgSet : style[i].transform # Null => i \in DOMAIN zoomState

C10_NothingMovesWhileClosed ==
  [][(~open /\ ~open') => UNCHANGED <<scroll, style, zoomState>>]_vars

\* the scrollIntoView timer of a session has fired after its hide(): the
\* first image was the visible one at hide() and the container is now on the
\* second
C10_ScrolledWhileClosed ==
  /\ ~open
  /\ ev = NoEvent
  /\ timers = <<[kind |-> "pageScroll", media |-> Imgs[1]]>>
  /\ scroll.top = R(OffsetTop(2))

----------------------------------------------------------------------------
(* properties of the click-centring revision *)

\* a scrollToClick of the image the modal was opened on is pending
ScrollPending ==
  /\ open
  /\ clickPosition # Null
  /\ \/ \E i \in 1..Len(frames) : frames[i].media = openedBy
     \/ openedBy \in listeners

\* the step runs the pending scrollToClick
ScrollApplied ==
  /\ ScrollPending
  /\ \/ frames # <<>> /\ frames' = <<>>
     \/ ~complete[openedBy] /\ complete'[openedBy]

\* C5: for every image size, viewport size and click fraction, the offset the
\* lightbox applies on open is clamp(imageSize * fraction - viewportSize / 2,
\* 0, max(0, imageSize - viewportSize)) on each axis
C5_ScrollOnOpenIsClamped ==
  [][ScrollApplied =>
       /\ scroll'.left =
            calculateScrollPosition(geom.imgWidth, geom.clientWidth, clickPosition[1])
       /\ scroll'.top =
            calculateScrollPosition(geom.imgHeight, geom.clientHeight, clickPosition[2])]_vars

\* a click on the bottom edge of the first image of a column has put the
\* bottom edge in the middle of the container
C5_PastTheImage ==
  /\ open
  /\ frames = <<>>
  /\ openedBy = Imgs[1]
  /\ clickPosition # Null
  /\ clickPosition[2] = R(1)
  /\ Gt(scroll.top, R(geom.imgHeight - geom.clientHeight))
  /\ scroll.top = Sub(R(geom.imgHeight), Q(geom.clientHeight, 2))

\* the offsets the pending scrollToClick will leave
FinalScroll == scrollToClick(scroll, openedBy, openedBy, clickPosition, TRUE)

\* C6: when the lightbox is closed and opened again at another click position,
\* between the second show() and its final scroll the container never holds
\* offsets that are neither 0 nor the final ones
C6_NoStaleScrollOnReopen ==
  ScrollPending => (scroll = [left |-> R(0), top |-> R(0)] \/ scroll = FinalScroll)

\* the modal is open again on a click in the top left corner and still holds
\* the offsets of the session before
C6_StaleScroll ==
  /\ ScrollPending
  /\ clickPosition = <<R(0), R(0)>>
  /\ Gt(scroll.left, R(0))
  /\ Gt(scroll.top, R(0))
  /\ FinalScroll = [left |-> R(0), top |-> R(0)]

\* C11: after show() with a click position on an image that has not finished
\* loading, the click-centred scroll is eventually applied even when the load
\* event never fires: every scrollToClick waiting for a load eventually runs
C11_ClickScrollEventuallyApplied ==
  \A media \in ImgSet : (media \in listeners) ~> (media \notin listeners)

\* the modal is open on a click on an image that is still loading: its
\* scrollToClick waits in a load listener and nothing else is scheduled
C11_WaitingForLoad ==
  /\ open
  /\ clickPosition # Null
  /\ openedBy \in listeners
  /\ ~complete[openedBy]
  /\ frames = <<>>
  /\ timers = <<>>

\* C12: in every reachable state a recorded pinch distance implies that
\* exactly two fingers are down, also when a third finger is added or
\* removed and when touches start outside an image
C12_PinchImpliesTwoTouches ==
  initialPinchDistance # Null => touches = 2

\* a third finger has come down during a pinch on the first image
C12_ThirdFingerDuringPinch ==
  /\ open
  /\ touches = 3
  /\ initialPinchDistance # Null
  /\ currentTouchImg = Imgs[1]
  /\ ev = Event("touchstart", FALSE, FALSE)

\* C13: every move of two touches during a pinch sets the zoom of the pinched
\* image to clamp(zoom at pinch start * current distance / distance at pinch
\* start, 1, 4), computed from the values recorded at the start of the pinch,
\* and the image then carries the scale transform of that zoom
C13_PinchZoomFromStart ==
  [][\A list \in TouchLists(2) :
       (/\ TouchMove(list)
        /\ initialPinchDistance # Null
        /\ currentTouchImg # "null"
        /\ currentTouchWrapper # "null")
       => LET img == currentTouchImg
              ratio == Div(getTouchDistance(list), initialPinchDistance)
              zoom == ClampZoom(Mul(initialPinchZoom, ratio))
          IN /\ img \in DOMAIN zoomState'
             /\ zoomState'[img].zoom = zoom
             /\ style'[img].transform = zoom]_vars

\* a pinch on the first image began with both fingers on one point, the
\* fingers have moved together, and the image carries no scale transform
C13_PinchFromOnePoint ==
  /\ open
  /\ touches = 2
  /\ initialPinchDistance = R(0)
  /\ initialPinchZoom = R(1)
  /\ currentTouchImg = Imgs[1]
  /\ ev = Event("touchmove", FALSE, TRUE)
  /\ Imgs[1] \in DOMAIN zoomState
  /\ IsNaN(zoomState[Imgs[1]].zoom)
  /\ style[Imgs[1]].transform = Null

\* the step lifts one finger of a pinch on an image whose zoom is above 1
PinchLifted ==
  /\ touches = 2
  /\ touches' = 1
  /\ initialPinchDistance # Null
  /\ currentTouchImg \in DOMAIN zoomState
  /\ Gt(zoomState[currentTouchImg].zoom, R(1))

\* C14: when one finger of a pinch is lifted and the zoom is above 1, the
\* gesture becomes a single-touch pan: the step leaves the pan armed
\* (isDragging with a wrapper), so that moves of the remaining finger scroll
\* the viewport without a new touchstart
C14_LiftedPinchBecomesPan ==
  [][PinchLifted => (isDragging' /\ currentWrapper' # "null")]_vars

\* the remaining finger of a pinch that zoomed the first image has moved and
\* no handler took the move
C14_RemainingFingerIgnored ==
  /\ open
  /\ touches = 1
  /\ initialPinchDistance = Null
  /\ ~isDragging
  /\ Imgs[1] \in DOMAIN zoomState
  /\ Gt(zoomState[Imgs[1]].zoom, R(1))
  /\ initialPinchZoom = R(1)
  /\ ev = Event("touchmove", FALSE, FALSE)
  /\ scroll.left = R(0)

\* a number that is not NaN and not below 0
NonNegative(v) == Le(R(0), v)

\* the step is a mouse move that handleMouseMove() turns into a pan
DragMoved ==
  /\ pointer' # pointer
  /\ isDragging
  /\ currentWrapper # "null"

\* C15: no scroll offset the engine assigns is negative or NaN: neither the
\* offsets of the anchored rescroll after a wheel zoom nor the offsets
\* assigned on every move of a drag
C15_AssignedScrollNonNegative ==
  /\ [][(frames # <<>> /\ frames' = <<>>) =>
          \A i \in 1..Len(frames) :
            /\ NonNegative(MathMax(R(0), Sub(Mul(ScrollWidth(style), frames[i].percentX),
                                             R(frames[i].mouseX))))
            /\ NonNegative(MathMax(R(0), Sub(Mul(ScrollHeight(style), frames[i].percentY),
                                             R(frames[i].mouseY))))]_vars
  /\ [][DragMoved =>
          /\ NonNegative(Sub(scrollStart.x, R(pointer'.x - dragStart.x)))
          /\ NonNegative(Sub(scrollStart.y, R(pointer'.y - dragStart.y)))]_vars

\* a drag that began at scroll offset 0 has moved to the right: the move
\* assigned a negative scrollLeft, which the container turned into 0
C15_DraggedRightFromZero ==
  /\ open
  /\ isDragging
  /\ mouse = "moved"
  /\ currentWrapper # "null"
  /\ scrollStart.x = R(0)
  /\ pointer.x > dragStart.x
  /\ Lt(Sub(scrollStart.x, R(pointer.x - dragStart.x)), R(0))
  /\ scroll.left = R(0)

\* C16: show() with an opener whose media id matches no element of the modal
\* is a no-op: it raises no error and changes neither the active classes nor
\* the scroll offsets
C16_UnmatchedOpenerIsNoOp ==
  [][(~open /\ open' /\ openedBy' \notin ImgSet) =>
       /\ ev'.type # "error"
       /\ ActiveMedia' = ActiveMedia
       /\ scroll' = scroll]_vars

\* show() with the unmatched opener has thrown: the modal is open with no
\* media item active and no scroll scheduled
C16_ThrownOnUnmatchedOpener ==
  /\ open
  /\ openedBy = "unmatched"
  /\ ev = Event("error", FALSE, FALSE)
  /\ ActiveMedia = {}
  /\ frames = <<>>
  /\ listeners = {}

\* the step is show() without a click position, on a media item of the modal
ShownWithoutClick ==
  /\ ~open
  /\ open'
  /\ clickPosition' = Null
  /\ openedBy' \in ImgSet

\* C17: show() without a click position scrolls the active media into view
\* and assigns scrollLeft = (mediaWidth - containerWidth) / 2, of which the
\* container keeps what lies in its scroll range; it schedules no click
\* scroll, and nothing moves the container afterwards while the session
\* lasts, whatever click position and pending callbacks an earlier session
\* left behind
C17_FallbackWithoutClick ==
  /\ [][ShownWithoutClick =>
          /\ scroll'.left = ClampScroll(Q(geom.imgWidth - geom.clientWidth, 2),
                                        ClickScrollWidth, geom.clientWidth)
          /\ scroll'.top = ClampScroll(R(ClickOffsetTop(openedBy')),
                                       ClickScrollHeight, geom.clientHeight)
          /\ frames' = frames
          /\ listeners' = listeners]_vars
  /\ [][(open /\ open' /\ clickPosition = Null) => scroll' = scroll]_vars

\* the modal is open without a click position on the second image of a
\* column of wide images, centred horizontally, while the load listener of
\* an earlier session with a click position is still registered
C17_CentredAfterClickSession ==
  /\ open
  /\ clickPosition = Null
  /\ openedBy = Imgs[2]
  /\ geom.stack > 1
  /\ geom.imgWidth > geom.clientWidth
  /\ listeners # {}
  /\ scroll.left = Q(geom.imgWidth - geom.clientWidth, 2)
  /\ scroll.top = R(geom.imgHeight)

\* the distance of the centre of the i-th media item from the centre of the
\* viewport, by offsetTop and offsetHeight
CentreDistance(i) ==
  MathAbs(Sub(Add(scroll.top, Q(Layout.clientHeight, 2)),
              Add(R(OffsetTop(i)), Q(Layout.imgHeight, 2))))

\* C18: on close the media handed to the page is the item whose vertical
\* centre is closest to the centre of the viewport, the first in document
\* order among equally close ones, by the scroll position the container has
\* when hide() is called, before the zoom is reset and the modal hidden
C18_HandoffIsFirstClosest ==
  [][(open /\ ~open') =>
       \E k \in 1..Len(Imgs) :
         /\ \A j \in 1..Len(Imgs) : Le(CentreDistance(k), CentreDistance(j))
         /\ \A j \in 1..(k - 1) : Lt(CentreDistance(k), CentreDistance(j))
         /\ timers' = Append(timers, [kind |-> "pageScroll", media |-> Imgs[k]])]_vars

\* the modal was closed with the viewport centred on the boundary of the two
\* images, and the first image is handed to the page
C18_TieHandsOverFirst ==
  /\ ~open
  /\ ev = Event("hide", FALSE, FALSE)
  /\ Add(scroll.top, Q(Layout.clientHeight, 2)) = R(OffsetTop(2))
  /\ CentreDistance(1) = CentreDistance(2)
  /\ timers = <<[kind |-> "pageScroll", media |-> Imgs[1]]>>

\* the step restores the scroll position of the page saved by show()
PageRestored ==
  /\ savedScrollPosition # Null
  /\ savedScrollPosition' = Null
  /\ windowScrollY' = savedScrollPosition[1]

\* C19: on close the scroll position of the page is restored only after the
\* host's hide() has completed: the step that restores it starts from a state
\* in which the modal is already hidden
C19_RestoreAfterHostHide ==
  [][PageRestored => ~open]_vars

\* the modal is closed over a scrolled page, the saved position is cleared
\* and no timer or frame is pending: hide() has restored the page within the
\* call
C19_RestoredWithinHide ==
  /\ ~open
  /\ openedBy \in ImgSet
  /\ savedScrollPosition = Null
  /\ windowScrollY = 1
  /\ timers = <<>>
  /\ frames = <<>>

\* the step centres a click in the middle of an image 1125 wide in a
\* container 375 wide
CentreClickApplied ==
  /\ ScrollApplied
  /\ geom.imgWidth = 1125
  /\ geom.clientWidth = 375
  /\ clickPosition[1] = Q(1, 2)

\* C20: the scroll calculation for image size 1125, viewport size 375 and
\* click fraction 0.5 yields 1125 * 0.5 - 375 / 2 = 375, which lies within
\* [0, 750], in the helper of the tests and in scrollToClick
C20_CentreClickYields375 ==
  /\ [](calculateScrollPosition(1125, 375, Q(1, 2)) = R(375))
  /\ [][CentreClickApplied => scroll'.left = R(375)]_vars

\* C20 as stated: the same calculation yields 187.5
C20_CentreClickYieldsHalfViewport ==
  /\ [](calculateScrollPosition(1125, 375, Q(1, 2)) = Q(375, 2))
  /\ [][CentreClickApplied => scroll'.left = Q(375, 2)]_vars

\* a click in the middle of an image 1125 wide has been centred in a
\* container 375 wide: the container is at scrollLeft 375
C20_CentredAt375 ==
  /\ open
  /\ clickPosition # Null
  /\ clickPosition[1] = Q(1, 2)
  /\ geom.imgWidth = 1125
  /\ geom.clientWidth = 375
  /\ ~ScrollPending
  /\ scroll.left = R(375)
  /\ scroll.left = calculateScrollPosition(geom.imgWidth, geom.clientWidth, clickPosition[1])

\* scroll / maxScroll differs from the click fraction by at most tolerance
RatioNear(scrollPos, imageSize, viewportSize, fraction, tolerance) ==
  Le(MathAbs(Sub(Div(scrollPos, R(imageSize - viewportSize)), fraction)), tolerance)

\* C21 as stated: for a 1125 x 3375 image in a 375 x 812 viewport and every
\* click fraction in [0, 1], the scroll ratio differs from the click fraction
\* by at most 0.15 on each axis
C21_RatioWithinTolerance ==
  /\ [](\A f \in FineFractions :
          /\ RatioNear(calculateScrollPosition(1125, 375, f), 1125, 375, f, Q(15, 100))
          /\ RatioNear(calculateScrollPosition(3375, 812, f), 3375, 812, f, Q(15, 100)))
  /\ [][ScrollApplied =>
          /\ RatioNear(scroll'.left, geom.imgWidth, geom.clientWidth,
                       clickPosition[1], Q(15, 100))
          /\ RatioNear(scroll'.top, geom.imgHeight, geom.clientHeight,
                       clickPosition[2], Q(15, 100))]_vars

\* C21: for a 1125 x 3375 image in a 375 x 812 viewport and every click
\* fraction in [0, 1], the scroll ratio differs from the click fraction by
\* at most 1/6 horizontally and by at most 0.15 vertically, in the helper of
\* the tests and in the scroll the modal applies on open
C21_RatioWithinSixth ==
  /\ [](\A f \in FineFractions :
          /\ RatioNear(calculateScrollPosition(1125, 375, f), 1125, 375, f, Q(1, 6))
          /\ RatioNear(calculateScrollPosition(3375, 812, f), 3375, 812, f, Q(15, 100)))
  /\ [][ScrollApplied =>
          /\ RatioNear(scroll'.left, geom.imgWidth, geom.clientWidth,
                       clickPosition[1], Q(1, 6))
          /\ RatioNear(scroll'.top, geom.imgHeight, geom.clientHeight,
                       clickPosition[2], Q(15, 100))]_vars

\* the modal was opened on a click at (1/6, 1/6) and the image is still at
\* its left edge: the ratio 0 is 1/6 away from the click fraction
C21_SixthStaysAtLeftEdge ==
  /\ open
  /\ geom = TestGeom
  /\ clickPosition = <<Q(1, 6), Q(1, 6)>>
  /\ ~ScrollPending
  /\ scroll.left = R(0)
  /\ Gt(scroll.top, R(0))

\* C22: listener registration is idempotent: after any number of show() and
\* hide() cycles each gesture listener is attached to the container at most
\* once, exactly once as soon as the modal has been shown, so that one input
\* event invokes each handler at most once
C22_ListenersAttachedOnce ==
  /\ attached <= 1
  /\ zoomInitialized <=> attached = 1
  /\ open => attached = 1

\* the modal is open in a later session (it was shown from the page offset a
\* close had handed over) and the listeners are attached once
C22_SecondSession ==
  /\ open
  /\ savedScrollPosition = R(PageOffsets[Imgs[2]])
  /\ windowScrollY = PageOffsets[Imgs[2]]
  /\ zoomInitialized
  /\ attached = 1

\* C23: the zoom reset is idempotent: after the reset of hide() no image has
\* a zoomState entry or a transform, and running the reset again on that
\* state leaves every style and the empty map as they are
C23_ResetIsIdempotent ==
  [][(open /\ ~open') =>
       /\ DOMAIN zoomState' = {}
       /\ \A i \in ImgSet : style'[i].transform = Null
       /\ ResetStyles(style', zoomState') = style'
       /\ ResetStyles(style', zoomState') = ResetStyles(style, zoomState)]_vars

\* the modal was closed right after a zoom of the first image (the rescroll
\* of the zoom is still pending) and the image has neither entry nor style
C23_ResetAfterZoom ==
  /\ ~open
  /\ ev = Event("hide", FALSE, FALSE)
  /\ Len(frames) = 1
  /\ DOMAIN zoomState = {}
  /\ style[Imgs[1]] = NoStyle
  /\ ResetStyles(style, zoomState) = style

----------------------------------------------------------------------------
(* properties of the media gallery *)

\* the step is a click on a hover thumbnail
ThumbnailClicked == gallery'.timeouts = gallery.timeouts + 1

\* the step changes isScrollingToMedia without a click or a timer
FlagChangedByItself ==
  /\ gallery'.isScrollingToMedia # gallery.isScrollingToMedia
  /\ ~ThumbnailClicked
  /\ gallery'.timeouts >= gallery.timeouts

\* C24 as stated: isScrollingToMedia is false before the first click on a
\* hover thumbnail, a click sets it to true synchronously, and it eventually
\* returns to false
C24_FlagFalseThenSetAndReset ==
  /\ gallery.isScrollingToMedia = "false"
  /\ [][~FlagChangedByItself]_vars
  /\ [][ThumbnailClicked => gallery'.isScrollingToMedia = "true"]_vars
  /\ (gallery.isScrollingToMedia = "true") ~> (gallery.isScrollingToMedia = "false")

\* C24: before the first click on a hover thumbnail isScrollingToMedia is
\* false where the desktop media query matched at construction and undefined
\* elsewhere; a click sets it to true synchronously, and it eventually
\* returns to false
C24_FlagSetAndReset ==
  /\ gallery.isScrollingToMedia = (IF gallery.desktop THEN "false" ELSE "undefined")
  /\ [][~FlagChangedByItself]_vars
  /\ [][ThumbnailClicked => gallery'.isScrollingToMedia = "true"]_vars
  /\ (gallery.isScrollingToMedia = "true") ~> (gallery.isScrollingToMedia = "false")

\* a thumbnail was clicked on a gallery built on a narrow viewport, the page
\* has arrived at the third item and the timer has reset the flag
C24_FlagResetAfterClick ==
  /\ ~gallery.desktop
  /\ gallery.isScrollingToMedia = "false"
  /\ gallery.timeouts = 0
  /\ gallery.goal = 0
  /\ gallery.active = {GalleryMedia[3]}
  /\ windowScrollY = 2

\* C25: immediately after scrollToMedia(id) for an existing media id the
\* hover thumbnail whose data-media-target is id is active and no other is;
\* after any sequence of setActiveHoverThumbnail() calls at most one hover
\* thumbnail has the class is-active
C25_OneActiveThumbnail ==
  /\ [][ThumbnailClicked => gallery'.active = {GalleryMedia[gallery'.goal]}]_vars
  /\ [][gallery'.active # gallery.active => Cardinality(gallery'.active) = 1]_vars
  /\ [](Cardinality(gallery.active) <= 1)

\* the third thumbnail has just been clicked with the page at the first
\* item: it alone is active while the smooth scroll has not begun
C25_ClickedThumbnailActive ==
  /\ gallery.desktop
  /\ gallery.isScrollingToMedia = "true"
  /\ gallery.goal = 3
  /\ windowScrollY = 0
  /\ gallery.active = {GalleryMedia[3]}

----------------------------------------------------------------------------
(* properties of the drag and of the touch recognizer *)

\* the step presses the mouse button
MousePressed == mouse = "up" /\ mouse' = "down"

\* C26 as stated: while dragging, every move sets the scroll of the viewport
\* on each axis to start.scroll - (start.pointer - current.pointer), with
\* start.scroll and start.pointer captured at drag start (the container
\* keeping the value within its scrollable range)
C26_DragScrollFollowsStatedFormula ==
  [][DragMoved =>
       scroll' = SetScroll(style, Sub(scrollStart.x, R(dragStart.x - pointer'.x)),
                                  Sub(scrollStart.y, R(dragStart.y - pointer'.y)))]_vars

\* C26: while dragging, every move sets the scroll of the viewport on each
\* axis to start.scroll - (current.pointer - start.pointer), which the
\* container keeps within its scrollable range; start.scroll and
\* start.pointer only change when a press is claimed, to the offsets and the
\* pointer position of that moment
C26_DragScrollFollowsPointer ==
  /\ [][DragMoved =>
          scroll' = SetScroll(style, Sub(scrollStart.x, R(pointer'.x - dragStart.x)),
                                     Sub(scrollStart.y, R(pointer'.y - dragStart.y)))]_vars
  /\ [][<<dragStart, scrollStart>>' # <<dragStart, scrollStart>> =>
          /\ MousePressed
          /\ dragStart' = pointer
          /\ scrollStart' = [x |-> scroll.left, y |-> scroll.top]]_vars

\* a drag that began with the container scrolled to the right has moved the
\* pointer to the right, and the container is scrolled less than at its start
C26_DraggedContentRight ==
  /\ open
  /\ isDragging
  /\ mouse = "moved"
  /\ currentWrapper # "null"
  /\ pointer.x > dragStart.x
  /\ Lt(scroll.left, scrollStart.x)

\* the step puts the first finger down
FirstFingerDown == touches = 0 /\ touches' = 1

\* the first image, the one image a press can land on, has a zoom above 1
FirstImageZoomed ==
  /\ Imgs[1] \in DOMAIN zoomState
  /\ Gt(zoomState[Imgs[1]].zoom, R(1))

\* C27: a mousedown or a single-finger touchstart is claimed only when it
\* lands on an image whose zoom is greater than 1; any other one leaves
\* isDragging, dragStart, scrollStart, currentWrapper and zoomState as they
\* were and does not call preventDefault
C27_ClaimedOnlyWhenZoomed ==
  [][((MousePressed \/ FirstFingerDown) /\ ~FirstImageZoomed) =>
       /\ UNCHANGED <<isDragging, dragStart, scrollStart, currentWrapper, zoomState>>
       /\ ~ev'.defaultPrevented]_vars

\* a mousedown has been claimed on an image whose zoom a pinch left at NaN
C27_DragOnUnzoomedImage ==
  /\ open
  /\ mouse = "down"
  /\ ev = Event("mousedown", FALSE, TRUE)
  /\ isDragging
  /\ currentDragImg = Imgs[1]
  /\ IsNaN(zoomState[Imgs[1]].zoom)

\* the step lifts the last finger
LastFingerLifted == touches > 0 /\ touches' = 0

\* C28: whenever a touchend reports zero remaining touches the recognizer is
\* idle again, whatever the order of the touch events before it: isDragging
\* is false and currentWrapper, initialPinchDistance, currentTouchImg and
\* currentTouchWrapper are null
C28_IdleAfterLastTouchEnd ==
  [][LastFingerLifted =>
       /\ ~isDragging'
       /\ currentWrapper' = "null"
       /\ initialPinchDistance' = Null
       /\ currentTouchImg' = "null"
       /\ currentTouchWrapper' = "null"]_vars

\* the last finger of a pan over a zoomed image has been lifted: the pan
\* had captured its start away from the origin, and nothing is tracked now
C28_PanEnded ==
  /\ open
  /\ touches = 0
  /\ ev = NoEvent
  /\ FirstImageZoomed
  /\ dragStart.x > 0
  /\ ~isDragging
  /\ currentWrapper = "null"
  /\ initialPinchDistance = Null

----------------------------------------------------------------------------
(* properties of the anchored rescroll *)

\* the step is a wheel zoom that changed the zoom and scheduled a rescroll
ZoomScheduled == Len(frames') = Len(frames) + 1

\* the step renders a frame
FrameRendered == frames # <<>> /\ frames' = <<>>

\* on one axis: the offset sc the container has after the rescroll of a zoom
\* at pointer offset p with the anchor percent, the scrollable extent being
\* extent and the client size client
AnchoredOnAxis(sc, p, percent, extent, client) ==
  LET wanted == Sub(Mul(extent, percent), R(p))
      assigned == MathMax(R(0), wanted)
  IN /\ sc = ClampScroll(assigned, extent, client)
     /\ (Le(R(0), wanted) /\ Le(wanted, Sub(extent, R(client)))) =>
          Div(Add(sc, R(p)), extent) = percent

\* C29: after a ctrl-wheel zoom at pointer position p the rescroll keeps the
\* content point under the pointer: percent = (p + oldScroll) /
\* oldScrollExtent is captured before the zoom, the new scroll is
\* max(0, newScrollExtent * percent - p), and whenever that value is not
\* clamped (newScroll + p) / newScrollExtent equals percent, on both axes
C29_RescrollKeepsAnchor ==
  /\ [][ZoomScheduled =>
          LET f == frames'[Len(frames')]
          IN /\ f.mouseX = pointer.x
             /\ f.mouseY = pointer.y
             /\ f.percentX = Div(Add(R(pointer.x), scroll.left), ScrollWidth(style))
             /\ f.percentY = Div(Add(R(pointer.y), scroll.top), ScrollHeight(style))]_vars
  /\ [][FrameRendered =>
          LET f == frames[Len(frames)]
          IN /\ AnchoredOnAxis(scroll'.left, f.mouseX, f.percentX,
                               ScrollWidth(style), Layout.clientWidth)
             /\ AnchoredOnAxis(scroll'.top, f.mouseY, f.percentY,
                               ScrollHeight(style), Layout.clientHeight)]_vars

\* a zoom to 4 with the pointer 5 from the left edge has been rescrolled: the
\* point at 5/6 of the width is under the pointer again, the container
\* scrolled by 5/3 within its range of 2
C29_AnchoredUnderPointer ==
  /\ open
  /\ frames = <<>>
  /\ ev = NoEvent
  /\ mouse = "up"
  /\ pointer.x = 5
  /\ Imgs[1] \in DOMAIN zoomState
  /\ zoomState[Imgs[1]].zoom = R(MaxZoom)
  /\ scroll.left = Q(5, 3)
  /\ Div(Add(scroll.left, R(pointer.x)), ScrollWidth(style)) = Q(5, 6)

\* the zoom of an image, 1 while it has no entry
ZoomOf(map, img) == IF img \in DOMAIN map THEN map[img].zoom ELSE R(1)

\* the step is a wheel event that changed the zoom of the first image
WheelZoomed ==
  /\ ev'.type = "wheel"
  /\ ZoomOf(zoomState', Imgs[1]) # ZoomOf(zoomState, Imgs[1])

\* the offsets the callback f leaves when it runs against the styles st
RescrolledBy(f, st) ==
  [left |-> ClampScroll(MathMax(R(0), Sub(Mul(ScrollWidth(st), f.percentX), R(f.mouseX))),
                        ScrollWidth(st), Layout.clientWidth),
   top |-> ClampScroll(MathMax(R(0), Sub(Mul(ScrollHeight(st), f.percentY), R(f.mouseY))),
                       ScrollHeight(st), Layout.clientHeight)]

\* C30: for every ctrl-wheel zoom that changes the zoom, the state update
\* and the transform are applied within the handler and the anchored
\* rescroll strictly later, in the next animation frame, with the scrollable
\* extents of that time; when several zooms occur before a frame runs the
\* scroll that remains is the one of the rescroll scheduled last
C30_RescrollDeferredLastWins ==
  /\ [][WheelZoomed =>
          /\ Scale(style', Imgs[1]) = zoomState'[Imgs[1]].zoom
          /\ style'[Imgs[1]].transformOrigin = "top left"
          /\ Len(frames') = Len(frames) + 1
          /\ SubSeq(frames', 1, Len(frames)) = frames
          /\ scroll' = Relayout(style', scroll)]_vars
  /\ [][Len(frames') < Len(frames) => FrameRendered]_vars
  /\ [][FrameRendered =>
          /\ style' = style
          /\ scroll' = RescrolledBy(frames[Len(frames)], style)]_vars

\* two zooms came before one frame, out to 1 and back in to 4 with the
\* pointer at the right edge: the transform is that of zoom 4 already, the
\* container still at the 0 it had at zoom 1, and of the two pending
\* rescrolls the first would restore the 5/3 from before the burst, the
\* second leave 2
C30_TwoRescrollsPending ==
  /\ open
  /\ Len(frames) = 2
  /\ pointer.x = 6
  /\ ZoomOf(zoomState, Imgs[1]) = R(MaxZoom)
  /\ Scale(style, Imgs[1]) = R(MaxZoom)
  /\ scroll.left = R(0)
  /\ RescrolledBy(frames[1], style).left = Q(5, 3)
  /\ RescrolledBy(frames[2], style).left = R(2)

----------------------------------------------------------------------------
(* properties of the zoom *)

\* the zoomState entry of an image, Null while it has none
EntryOf(map, img) == IF img \in DOMAIN map THEN map[img] ELSE Null

\* the step leaves the entry and the styles of the image as they were
Untouched(img) ==
  /\ EntryOf(zoomState', img) = EntryOf(zoomState, img)
  /\ style'[img] = style[img]

\* the step is a wheel event or a touch event
GestureStep == ev'.type \in {"wheel", "touchstart", "touchmove"}

\* C31: zoom state is independent per image: a ctrl-wheel zoom or a pinch on
\* an image A changes only the zoomState entry and the transform of A; the
\* entry, zoom and transform of every other image are unchanged, also when
\* the fingers of a pinch that started on A move on over another image
C31_ZoomIsPerImage ==
  /\ [][GestureStep =>
          \A a \in ImgSet : \A b \in ImgSet \ {a} : Untouched(a) \/ Untouched(b)]_vars
  /\ [][ev'.type \in {"touchstart", "touchmove"} =>
          \A b \in ImgSet \ {currentTouchImg'} : Untouched(b)]_vars

\* the first image has been zoomed to 4 by the wheel and the second by a
\* pinch that began on it, and the pinch has moved on: each image has the
\* zoom of its own gesture
C31_TwoImagesTwoZooms ==
  /\ open
  /\ touches = 2
  /\ ev = Event("touchmove", FALSE, TRUE)
  /\ currentTouchImg = Imgs[2]
  /\ ZoomOf(zoomState, Imgs[1]) = R(MaxZoom)
  /\ Scale(style, Imgs[1]) = R(MaxZoom)
  /\ ZoomOf(zoomState, Imgs[2]) = R(2)
  /\ Scale(style, Imgs[2]) = R(2)

\* the step is a ctrl-wheel event that landed on an image
WheelOnImage == ev' = Event("wheel", TRUE, TRUE)

\* the step is what the wheel event with deltaY over img is to do: the zoom
\* of img, 1 if it had no entry, becomes z = clamp(zoom - deltaY * 0.01, 1, 4);
\* if z is the zoom it had, transform, cursor and scroll stay, and else the
\* image is painted with scale(z) from its top left corner
WheelZoomOf(img, deltaY) ==
  LET old == ZoomOf(zoomState, img)
      z == ClampZoom(Sub(old, Mul(R(deltaY), Q(1, 100))))
  IN /\ img \in DOMAIN zoomState'
     /\ zoomState'[img].zoom = z
     /\ Le(R(MinZoom), z)
     /\ Le(z, R(MaxZoom))
     /\ IF z = old
        THEN UNCHANGED <<style, scroll>>
        ELSE /\ Scale(style', img) = z
             /\ style'[img].transformOrigin = "top left"

\* C32: a ctrl-wheel event on an image sets its zoom to
\* clamp(zoom - deltaY * 0.01, 1, 4), creating the entry at zoom 1 if absent,
\* and applies scale(newZoom) with transform-origin top left; when the
\* clamped value equals the current zoom, transform, cursor and scroll are
\* left unchanged
C32_WheelSetsClampedZoom ==
  [][WheelOnImage =>
       \E img \in ImgSet, deltaY \in WheelDeltas \cup BurstDeltas :
         WheelZoomOf(img, deltaY)]_vars

\* a ctrl-wheel event has landed on an image whose zoom a pinch had left at
\* NaN: the zoom is NaN still, the image painted at its old scale, and a
\* rescroll is pending
C32_WheelOnNaNZoom ==
  /\ open
  /\ ev = Event("wheel", TRUE, TRUE)
  /\ touches = 0
  /\ Imgs[1] \in DOMAIN zoomState
  /\ IsNaN(zoomState[Imgs[1]].zoom)
  /\ Scale(style, Imgs[1]) = R(1)
  /\ style[Imgs[1]].cursor = "zoom-out"
  /\ frames # <<>>

----------------------------------------------------------------------------
(* properties of the revision that restores the page after hide() *)

\* the step is a hide()
HideStep == open /\ ~open'

\* C33: every hide() restores the window scroll to the value captured by its
\* matching show(), and every show() still has its saved position when its
\* own hide() runs, also when show() is called again before the restore
\* timer of the previous hide() has fired: the saved position is not touched
\* while the modal is open, and every hide() finds it and sets its restore
\* timer
C33_SavedPositionSurvivesSession ==
  /\ [][(open /\ open') => savedScrollPosition' = savedScrollPosition]_vars
  /\ [][HideStep =>
          /\ savedScrollPosition # Null
          /\ Len(timers') = Len(timers) + 1]_vars

\* the modal was closed and opened again within 50 ms and the restore timer
\* of the first session has fired into the second: the modal is open and has
\* no saved position for its hide() to restore
C33_OpenWithoutSavedPosition ==
  /\ open
  /\ savedScrollPosition = Null
  /\ timers = <<>>

----------------------------------------------------------------------------
(* properties of the deferred click-centring *)

\* the step runs a scrollToClick callback: a frame is rendered, or an image
\* with a load listener finishes loading
ScrollToClickRuns ==
  \/ frames # <<>> /\ frames' = <<>>
  \/ \E media \in listeners : ~complete[media] /\ complete'[media]

\* C34: the deferred scrollToClick callback never runs while
\* this.clickPosition is null, for every interleaving of show(opener, click),
\* hide(), show(opener) without click and the load event of the image
C34_CallbackFindsClickPosition ==
  [][ScrollToClickRuns => clickPosition # Null]_vars

\* the load listener of an image a closed session had registered has run in
\* a session opened without click position, and has thrown
C34_CallbackThrew ==
  /\ open
  /\ openedBy \in ImgSet
  /\ clickPosition = Null
  /\ ev = Event("error", FALSE, FALSE)

----------------------------------------------------------------------------
(* properties of the pause of the scroll observer *)

\* C35: the scroll observer stays paused for the whole programmatic scroll:
\* isScrollingToMedia remains true until 600 ms after the most recent
\* scrollToMedia() call, that is while a 600 ms timer is pending, also when a
\* second thumbnail is clicked less than 600 ms after the first
C35_PausedUntilLastTimer ==
  gallery.timeouts > 0 => gallery.isScrollingToMedia = "true"

\* two thumbnails were clicked within 600 ms and the timer of the first
\* click has fired: the page is still on its way to the second item, the
\* timer of the second click is pending, and the observer is not paused
C35_ObserverResumedDuringScroll ==
  /\ gallery.desktop
  /\ gallery.timeouts = 1
  /\ gallery.goal # 0
  /\ windowScrollY # gallery.goal - 1
  /\ gallery.isScrollingToMedia = "false"

----------------------------------------------------------------------------
(* properties of the infinite scroll *)

\* C36: at most one page fetch is in flight at any time and currentPage
\* never exceeds totalPages, for every interleaving of observer
\* intersections, retry clicks, fetch completions and reset() calls
C36_OneFetchWithinPages ==
  /\ Len(infinite.fetches) <= 1
  /\ infinite.currentPage <= infinite.totalPages

\* reset() was called while the request for page 2 was in flight and the
\* sentinel has intersected again: page 2 is requested twice at once
C36_TwoFetchesInFlight ==
  /\ infinite.loading
  /\ infinite.currentPage = 1
  /\ infinite.fetches = <<2, 2>>

\* the element as reset() leaves it on a collection of several pages
Rearmed ==
  /\ infinite.totalPages > 1
  /\ infinite.currentPage = 1
  /\ ~infinite.loading
  /\ ~infinite.errorShown
  /\ infinite.fetches = <<>>

PageTwoRequested == \E i \in 1..Len(infinite.fetches) : infinite.fetches[i] = 2

\* C37: reset() re-arms loading: after reset() on an element with
\* totalPages > 1 an intersection of the sentinel eventually starts a load
\* of page 2, also when complete() had disconnected the observer before
C37_ResetRearmsLoading == Rearmed ~> PageTwoRequested

\* all pages had been loaded and reset() has been called: the element is at
\* page 1 of several again, and its observer is still disconnected
C37_ResetWithoutObserver ==
  /\ Rearmed
  /\ infinite.observer = "disconnected"

----------------------------------------------------------------------------
(* properties of the lazy video *)

\* C38: at most one video element is ever inserted per lazy-media element
\* and showVideo runs at most once, for every sequence of intersection
\* entries, also when the element leaves and re-enters the viewport before
\* loadeddata or the 2000 ms fallback
C38_OneVideoShownOnce ==
  /\ lazyVideo.videos <= 1
  /\ lazyVideo.shown <= 1

\* the element entered the viewport, left it and entered it again before
\* its first video had data: a second video element is inserted
C38_SecondVideoInserted ==
  /\ lazyVideo.videos = 2
  /\ lazyVideo.shown = 0
  /\ lazyVideo.placeholder

----------------------------------------------------------------------------
(* properties of the zoom overlay *)

\* C39: at most one zoom overlay is in the document at any time, and after
\* cleanupOverlay() none is in the document until the next magnify(), for
\* every interleaving of magnify(), cleanupOverlay() and the load of the
\* overlay image that inserts the overlay
C39_OneOverlayNoneAfterCleanup ==
  /\ Len(magnifier.inDocument) <= 1
  /\ magnifier.currentOverlay = 0 => magnifier.inDocument = <<>>

\* an image was clicked twice before its overlay image had loaded, and the
\* overlay was dismissed: the overlay of the first click is still in the
\* document
C39_OverlayLeftBehind ==
  /\ magnifier.currentOverlay = 0
  /\ magnifier.loading = {}
  /\ magnifier.inDocument = <<1>>

====
